---- MODULE Spec2Model ----
(***************************************************************************)
(* Verification model of the bicycle architecture compiler:                *)
(*   - the PauliString algebra (bicycle_cliffords/src/pauli_string.rs),    *)
(*   - the native measurement catalogue and the code action                *)
(*     (native_measurement.rs, measurement.rs),                            *)
(*   - the Clifford synthesis table builder and its lookups                *)
(*     (decomposition.rs),                                                 *)
(*   - the per-operation compiler (pbc_gross/src/compile.rs) with the      *)
(*     basis changer and the small-angle cache,                            *)
(*   - the stream optimizer (bicycle_compiler/src/optimize.rs).            *)
(*                                                                         *)
(* The source works on 12-qubit PauliStrings (two halves of 6 qubits, a    *)
(* 4^12-entry table).  The model keeps every formula of the source but     *)
(* takes the half-width from the dimension of the code matrices it is      *)
(* given, and is run on 2x2 code matrices: 4-qubit PauliStrings, a 4^4     *)
(* entry table, data blocks of 3 qubits.                                   *)
(***************************************************************************)
EXTENDS Integers, Sequences, FiniteSets, TLC

VARIABLES
    code,                \* MeasurementTableBuilder.code
    measurements,        \* MeasurementTableBuilder.measurements (dense table)
    native_measurements, \* MeasurementTableBuilder.native_measurements
    len,                 \* MeasurementTableBuilder.len
    base_rots,           \* build(): base_rots, in its HashMap iteration order
    prev_paulis,         \* build(): rest of the frontier being expanded
    next_paulis,         \* build(): frontier of the next pass
    cur,                 \* build(): pass counter
    pc,                  \* position of the table construction
    result,              \* what the last call returned
    cache,               \* small_angle.rs: CACHE
    kept,                \* a compilation result the caller kept
    history,             \* optimize.rs: history of the duplicate filter
    stream,              \* main.rs: the run of the pipeline over stdin
    numerics,            \* bicycle_numerics: the state of run_numerics and of its driver
    sync                \* small_angle.rs: the mutex of CACHE and the threads in synthesize_angle

tvars == <<code, measurements, native_measurements, len, base_rots,
           prev_paulis, next_paulis, cur, pc>>

\* the state of the drivers around the compiler
xvars == <<stream, numerics, sync>>

-----------------------------------------------------------------------------
(* Small helpers                                                           *)

\* the elements of a finite set of integers, ascending
SetToSeqAsc(S) ==
    [i \in 1..Cardinality(S) |->
        CHOOSE x \in S : Cardinality({y \in S : y < x}) = i - 1] \o <<>>

Reverse(s) == [i \in 1..Len(s) |-> s[Len(s) + 1 - i]] \o <<>>

RECURSIVE Concat(_)
\* flatten a sequence of sequences
Concat(ss) == IF ss = <<>> THEN <<>> ELSE Head(ss) \o Concat(Tail(ss))

Range(s) == {s[i] : i \in 1..Len(s)}

\* the element of a one-element set
Only(S) == CHOOSE x \in S : TRUE

\* the same sequence / function, as an explicit value
Strict(s) == s \o <<>>
StrictFn(f) == f @@ <<>>

-----------------------------------------------------------------------------
(* Codes (measurement.rs).  A code is a pair of square GF(2) matrices.     *)

CodeFull  == [mx |-> <<<<0, 1>>, <<1, 1>>>>, my |-> <<<<1, 1>>, <<1, 0>>>>]
CodeStall == [mx |-> <<<<1, 0>>, <<0, 1>>>>, my |-> <<<<1, 0>>, <<1, 1>>>>]
Codes == {CodeFull, CodeStall}

\* half-width of a PauliString: the dimension of the code matrices
HalfQubits == Len(CodeFull.mx)
\* number of qubits of a PauliString (12 in the source)
NQ == 2 * HalfQubits
\* number of PauliStrings, 4^12 in the source (nr_paulis)
NrPaulis == (4 ^ (NQ))
PauliStrings == 0..(NrPaulis - 1)

-----------------------------------------------------------------------------
(* PauliString algebra (pauli_string.rs), on 2*NQ bits                     *)

Bit(n, i) == (n \div (2 ^ (i))) % 2

RECURSIVE BitFold(_, _, _)
\* combine two words bit by bit; op is the truth table <<f(0,0),f(0,1),f(1,0),f(1,1)>>,
\* with f(0,0) = 0
BitFold(op, a, b) ==
    IF a = 0 /\ b = 0 THEN 0
    ELSE op[2 * (a % 2) + (b % 2) + 1] + 2 * BitFold(op, a \div 2, b \div 2)

\* the bitwise operators on two hexadecimal digits, tabulated (digit a, digit b at 16a+b)
AndDigits == StrictFn([k \in 0..255 |-> BitFold(<<0, 0, 0, 1>>, k \div 16, k % 16)])
OrDigits  == StrictFn([k \in 0..255 |-> BitFold(<<0, 1, 1, 1>>, k \div 16, k % 16)])
XorDigits == StrictFn([k \in 0..255 |-> BitFold(<<0, 1, 1, 0>>, k \div 16, k % 16)])

RECURSIVE DigitFold(_, _, _)
\* combine two words digit by digit
DigitFold(tab, a, b) ==
    IF a = 0 /\ b = 0 THEN 0
    ELSE tab[16 * (a % 16) + (b % 16)] + 16 * DigitFold(tab, a \div 16, b \div 16)

BitAnd(a, b) == Only({DigitFold(AndDigits, x, y) : x \in {a}, y \in {b}})
BitOr(a, b)  == Only({DigitFold(OrDigits, x, y) : x \in {a}, y \in {b}})
BitXor(a, b) == Only({DigitFold(XorDigits, x, y) : x \in {a}, y \in {b}})

RECURSIVE CountBits(_)
CountBits(n) == IF n = 0 THEN 0 ELSE (n % 2) + CountBits(n \div 2)

OnesOfDigit == StrictFn([k \in 0..15 |-> CountBits(k)])

RECURSIVE CountOnes(_)
CountOnes(n) == IF n = 0 THEN 0 ELSE OnesOfDigit[n % 16] + CountOnes(n \div 16)

\* u32::count_ones
count_ones(n) == Only({CountOnes(x) : x \in {n}})

ID == 0
X1 == 1
Z1 == (2 ^ (NQ))
Y1 == BitOr(1, (2 ^ (NQ)))

Mul(a, b) == BitXor(a, b)

get_pauli(p, i) ==
    LET x == Bit(p, i) = 1
        z == Bit(p, i + NQ) = 1
    IN  IF x /\ z THEN "Y" ELSE IF x THEN "X" ELSE IF z THEN "Z" ELSE "I"

pivot_bits(p) == BitAnd(p, Y1)

zero_pivot(p) == p - pivot_bits(p)

has_pivot_support(p) == pivot_bits(p) # 0

commutes_with(self, rhs) ==
    LET self_z == self \div (2 ^ (NQ))
        self_x == BitXor(self, self_z * (2 ^ (NQ)))
        self_transpose == BitOr(self_x * (2 ^ (NQ)), self_z)
    IN  count_ones(BitAnd(self_transpose, rhs)) % 2 = 0

conjugate_with(self, rhs) ==
    IF commutes_with(self, rhs) THEN self ELSE Mul(self, rhs)

\* From<&[Pauli; 12]>: the Z bits above the X bits, qubit 0 lowest
RECURSIVE PauliBits(_, _, _)
PauliBits(ps, which, i) ==
    IF i > Len(ps) THEN 0
    ELSE (IF ps[i] \in which THEN (2 ^ (i - 1)) ELSE 0) + PauliBits(ps, which, i + 1)

FromPaulis(ps) ==
    PauliBits(ps, {"Z", "Y"}, 1) * (2 ^ (NQ)) + PauliBits(ps, {"X", "Y"}, 1)

-----------------------------------------------------------------------------
(* Native measurements (native_measurement.rs) and what they measure       *)

PauliOrder == <<"I", "X", "Z", "Y">>

AutOrder == 6

AutNew(x, y) == [x |-> x % AutOrder, y |-> y % AutOrder]
AutInv(a) == AutNew(AutOrder - a.x, AutOrder - a.y)

TwoBasesNew(p1, p7) == [p1 |-> p1, p7 |-> p7]

all_bases ==
    LET pairs == [i \in 0..15 |-> TwoBasesNew(PauliOrder[(i \div 4) + 1], PauliOrder[(i % 4) + 1])]
    IN  Strict([i \in 1..15 |-> pairs[i]])

NativeAll ==
    Strict([i \in 1..(AutOrder * AutOrder * 15) |->
        LET a == (i - 1) \div 15
            b == (i - 1) % 15
        IN  [logical |-> all_bases[b + 1],
             automorphism |-> AutNew(a \div AutOrder, a % AutOrder)]])

NativeImplementation(nm) ==
    << [op |-> "Automorphism", aut |-> nm.automorphism],
       [op |-> "Measure", bases |-> nm.logical],
       [op |-> "Automorphism", aut |-> AutInv(nm.automorphism)] >>

MatDim(m) == Len(m)
MatId(n) == Strict([i \in 1..n |-> Strict([j \in 1..n |-> IF i = j THEN 1 ELSE 0])])

RECURSIVE DotFrom(_, _, _)
DotFrom(u, v, k) == IF k > Len(u) THEN 0 ELSE u[k] * v[k] + DotFrom(u, v, k + 1)

MatMul(a, b) ==
    Strict([i \in 1..MatDim(a) |-> Strict([j \in 1..MatDim(a) |->
        DotFrom(a[i], [k \in 1..MatDim(a) |-> b[k][j]], 1)])])

RECURSIVE MatPow(_, _)
MatPow(m, e) ==
    IF e = 0 THEN MatId(MatDim(m))
    ELSE Only({MatMul(m, p) : p \in {MatPow(m, e - 1)}})

MatMod2(m) ==
    Strict([i \in 1..MatDim(m) |-> Strict([j \in 1..MatDim(m) |-> m[i][j] % 2])])

MatVec2(m, v) == Strict([i \in 1..MatDim(m) |-> DotFrom(m[i], v, 1) % 2])

RECURSIVE BitsToInt(_, _)
\* From<&[u32; 24]>: little-endian
BitsToInt(bits, i) ==
    IF i > Len(bits) THEN 0 ELSE bits[i] * (2 ^ (i - 1)) + BitsToInt(bits, i + 1)

measures(c, nm) ==
    LET n    == MatDim(c.mx)
        one  == [i \in 1..n |-> IF i = 1 THEN 1 ELSE 0]
        zero == [i \in 1..n |-> 0]
        xz(p) == IF p = "I" THEN <<zero, zero>>
                 ELSE IF p = "X" THEN <<one, zero>>
                 ELSE IF p = "Z" THEN <<zero, one>>
                 ELSE <<one, one>>
        b1 == xz(nm.logical.p1)
        b7 == xz(nm.logical.p7)
        action(a) == Only({MatMod2(mm) : mm \in {Only({MatMul(px, py) :
                              px \in {MatPow(c.mx, a.x)}, py \in {MatPow(c.my, a.y)}})}})
    IN  Only({Only({BitsToInt(bits, 1) :
                       bits \in {MatVec2(aut, b1[1]) \o MatVec2(aut, b7[1])
                                 \o MatVec2(inv, b1[2]) \o MatVec2(inv, b7[2])}}) :
                 aut \in {action(nm.automorphism)},
                 inv \in {action(AutInv(nm.automorphism))}})

-----------------------------------------------------------------------------
(* Synthesis table (decomposition.rs)                                      *)

\* Option::None of a PauliString, and the empty table slot
NoPauli == 0 - 1
NoEntry == [measurement |-> NoPauli, conjugated_with |-> NoPauli, cost |-> 0]
NoNative == [logical |-> TwoBasesNew("I", "I"), automorphism |-> AutNew(0, 0)]

Entry(m, c, k) == [measurement |-> m, conjugated_with |-> c, cost |-> k]

implements(e) ==
    IF e.conjugated_with # NoPauli
    THEN conjugate_with(e.measurement, zero_pivot(e.conjugated_with))
    ELSE e.measurement

index(p) == p

\* MeasurementTableBuilder::insert, on the pair (measurements, len)
insert(t, e) ==
    LET i == index(implements(e))
    IN  [measurements |-> [t.measurements EXCEPT ![i] = e],
         len |-> IF t.measurements[i] = NoEntry THEN t.len + 1 ELSE t.len]

RECURSIVE InsertRange(_, _, _, _)
\* insert es[lo], ..., es[hi] in that order
InsertRange(t, es, lo, hi) ==
    IF lo > hi THEN t
    ELSE IF lo = hi THEN insert(t, es[lo])
    ELSE LET mid == (lo + hi) \div 2
         IN  Only({InsertRange(left, es, mid + 1, hi) :
                      left \in {InsertRange(t, es, lo, mid)}})

InsertAll(t, es) == InsertRange(t, es, 1, Len(es))

\* the PauliString of every native of a list, in list order
MeasuresOf(c, natives) ==
    Only({Strict([i \in 1..Len(ns) |-> measures(c, ns[i])]) : ns \in {natives}})

\* collect() into a HashMap: a later native replaces an earlier one with the same key
native_lookup(c, natives) ==
    LET ms == MeasuresOf(c, natives)
    IN  StrictFn([p \in PauliStrings |->
            LET is == {i \in 1..Len(natives) : ms[i] = p}
            IN  IF is = {} THEN NoNative
                ELSE natives[CHOOSE i \in is : \A j \in is : j <= i]])

NativeKeys(lookup) == {p \in PauliStrings : lookup[p] # NoNative}

\* MeasurementTableBuilder::new
new(natives, c) ==
    LET lookup == native_lookup(c, natives)
        empty  == [measurements |-> StrictFn([p \in PauliStrings |-> NoEntry]), len |-> 0]
        keys   == SetToSeqAsc(NativeKeys(lookup))
        seeded == InsertAll(empty,
                      Strict([i \in 1..Len(keys) |-> Entry(keys[i], NoPauli, 1)]))
        full   == insert(seeded, Entry(0, NoPauli, 0))
    IN  [measurements |-> full.measurements,
         native_measurements |-> lookup,
         len |-> full.len,
         code |-> c]

\* the orders in which a HashMap may iterate over a set of keys
IterationOrders(keys) ==
    Only({Only({{asc, Reverse(asc)} : asc \in {SetToSeqAsc(ks)}}) : ks \in {keys}})

BaseRotKeysAll(t) == NativeKeys(t.native_measurements)

\* build(): the base rotations, keyed by the PauliString of a native with pivot support
BaseRotKeys(t) == {p \in NativeKeys(t.native_measurements) : has_pivot_support(p)}

NewCostFlat(prev_meas, rot_impl) == prev_meas.cost

NewCostSingle(prev_meas, rot_impl) == prev_meas.cost + rot_impl.cost

\* build(): cost of the entry made from prev_meas and the base rotation rot_impl
NewCost(prev_meas, rot_impl) == prev_meas.cost + 2 * rot_impl.cost

ReplacesOrEqual(existing_impl, new_rotation_impl) ==
    existing_impl.cost >= new_rotation_impl.cost

ReplacesFlipped(existing_impl, new_rotation_impl) ==
    existing_impl.cost < new_rotation_impl.cost

\* build(): an existing entry is replaced only by a strictly cheaper one
Replaces(existing_impl, new_rotation_impl) == existing_impl.cost > new_rotation_impl.cost

\* build(): the body of the inner loop, for prev_pauli and one base rotation
InnerStep(st, prev_pauli, rot) ==
    LET rot_pauli == rot[1]
        rot_impl  == rot[2]
        prev_meas == st.t.measurements[index(prev_pauli)]
        new_rotation_impl ==
            Entry(prev_pauli, rot_pauli, NewCost(prev_meas, rot_impl))
        new_pauli == implements(new_rotation_impl)
        existing  == st.t.measurements[index(new_pauli)]
    IN  IF existing = NoEntry \/ Replaces(existing, new_rotation_impl)
        THEN [t |-> insert(st.t, new_rotation_impl), next |-> Append(st.next, new_pauli)]
        ELSE st

RECURSIVE InnerRange(_, _, _, _, _)
\* the inner loop over rots[lo], ..., rots[hi] in that order
InnerRange(st, prev_pauli, rots, lo, hi) ==
    IF lo > hi THEN st
    ELSE IF lo = hi THEN InnerStep(st, prev_pauli, rots[lo])
    ELSE LET mid == (lo + hi) \div 2
         IN  Only({InnerRange(left, prev_pauli, rots, mid + 1, hi) :
                      left \in {InnerRange(st, prev_pauli, rots, lo, mid)}})

\* build(): the inner loop over base_rots for one prev_pauli
InnerLoop(t, nxt, prev_pauli, rots) ==
    InnerRange([t |-> t, next |-> nxt], prev_pauli, rots, 1, Len(rots))

Builder == [measurements |-> measurements, len |-> len,
            native_measurements |-> native_measurements, code |-> code]

\* the state after MeasurementTableBuilder::new(NativeMeasurement::all(), code)
TableInit ==
    /\ code \in Codes
    /\ \E b \in {new(NativeAll, code)} :
           /\ measurements = b.measurements
           /\ native_measurements = b.native_measurements
           /\ len = b.len
    /\ base_rots = <<>>
    /\ prev_paulis = <<>>
    /\ next_paulis = <<>>
    /\ cur = 0
    /\ pc = "new"

\* build(), up to the first test of the while loop
BuildStart ==
    /\ pc = "new"
    /\ next_paulis' = MeasuresOf(code, NativeAll)
    /\ \E order \in IterationOrders(BaseRotKeys(Builder)) :
          base_rots' = Strict([i \in 1..Len(order) |->
                                  <<order[i], measurements[index(order[i])]>>])
    /\ cur' = 1
    /\ pc' = "while"
    /\ UNCHANGED <<code, measurements, native_measurements, len, prev_paulis, result, cache, kept, history, xvars>>

\* build(): the while test and the head of a pass
BuildPass ==
    /\ pc = "while"
    /\ IF len < NrPaulis
       THEN /\ prev_paulis' = next_paulis
            /\ next_paulis' = <<>>
            /\ cur' = cur + 1
            /\ pc' = "for"
       ELSE /\ pc' = "built"
            /\ UNCHANGED <<prev_paulis, next_paulis, cur>>
    /\ UNCHANGED <<code, measurements, native_measurements, len, base_rots, result, cache, kept, history, xvars>>

\* build(): one prev_pauli against every base rotation; self.get(prev_pauli)
\* .expect(..) panics in the first iteration when prev_pauli has no entry
BuildConjugate ==
    /\ pc = "for"
    /\ prev_paulis # <<>>
    /\ IF base_rots # <<>> /\ measurements[index(Head(prev_paulis))] = NoEntry
       THEN /\ pc' = "panicked"
            /\ UNCHANGED <<measurements, len, next_paulis, prev_paulis>>
       ELSE /\ \E r \in {InnerLoop([measurements |-> measurements, len |-> len],
                                   next_paulis, Head(prev_paulis), base_rots)} :
                  /\ measurements' = r.t.measurements
                  /\ len' = r.t.len
                  /\ next_paulis' = r.next
            /\ prev_paulis' = Tail(prev_paulis)
            /\ pc' = pc
    /\ UNCHANGED <<code, native_measurements, base_rots, cur, result, cache, kept, history, xvars>>

\* build(): the end of a pass; an empty frontier breaks out of the loop
BuildPassEnd ==
    /\ pc = "for"
    /\ prev_paulis = <<>>
    /\ pc' = IF next_paulis = <<>> THEN "built" ELSE "while"
    /\ UNCHANGED <<code, measurements, native_measurements, len, base_rots,
                   prev_paulis, next_paulis, cur, result, cache, kept, history, xvars>>

\* complete(): Ok exactly when every slot is filled
Complete ==
    /\ pc = "built"
    /\ pc' = IF \A p \in PauliStrings : measurements[p] # NoEntry
             THEN "complete" ELSE "incomplete"
    /\ UNCHANGED <<code, measurements, native_measurements, len, base_rots,
                   prev_paulis, next_paulis, cur, result, cache, kept, history, xvars>>

-----------------------------------------------------------------------------
(* Lookups on the completed table (decomposition.rs)                       *)

NativeMeasurementImplNew(native, p) == [native |-> native, measures |-> p]

RECURSIVE ChainWalk(_, _, _)
\* implementation(): follow conjugated_with back to an entry without one;
\* returns that entry and the rotations met, the one of p's own entry first
ChainWalk(tbl, e, rots) ==
    IF e.conjugated_with # NoPauli
    THEN ChainWalk(tbl, tbl[index(e.measurement)], Append(rots, e.conjugated_with))
    ELSE [entry |-> e, rots |-> rots]

\* implementation(): the rotations as returned, after .map(..).rev()
NativeRotsNoRev(lookup, rots) ==
    [i \in 1..Len(rots) |-> NativeMeasurementImplNew(lookup[rots[i]], rots[i])] \o <<>>

NativeRots(lookup, rots) ==
    Reverse([i \in 1..Len(rots) |-> NativeMeasurementImplNew(lookup[rots[i]], rots[i])])

Panic == [ok |-> FALSE]

\* CompleteMeasurementTable::implementation; Panic when an assert or unwrap fails
implementation(tbl, lookup, p) ==
    IF p > NrPaulis \/ p = 0 THEN Panic
    ELSE LET w == ChainWalk(tbl, tbl[index(p)], <<>>)
         IN  IF lookup[w.entry.measurement] = NoNative
                \/ \E i \in 1..Len(w.rots) : lookup[w.rots[i]] = NoNative
             THEN Panic
             ELSE [ok |-> TRUE,
                   measures |-> p,
                   base |-> NativeMeasurementImplNew(lookup[w.entry.measurement],
                                                     w.entry.measurement),
                   rotations |-> NativeRots(lookup, w.rots)]

RECURSIVE MaxByKeyFrom(_, _, _)
MaxByKeyFrom(impls, best, i) ==
    IF i > Len(impls) THEN best
    ELSE MaxByKeyFrom(impls,
             IF Len(impls[i].rotations) >= Len(best.rotations) THEN impls[i] ELSE best,
             i + 1)

RECURSIVE MinByKeyFrom(_, _, _)
\* Iterator::min_by_key on the number of rotations: the first minimum wins
MinByKeyFrom(impls, best, i) ==
    IF i > Len(impls) THEN best
    ELSE MinByKeyFrom(impls,
             IF Len(impls[i].rotations) < Len(best.rotations) THEN impls[i] ELSE best,
             i + 1)

PivotPaulis == <<X1, Z1, Y1>>

\* CompleteMeasurementTable::min_data
min_data(tbl, lookup, p) ==
    IF p > NrPaulis \/ pivot_bits(p) # ID THEN Panic
    ELSE LET impls == [i \in 1..3 |-> implementation(tbl, lookup, Mul(p, PivotPaulis[i]))] \o <<>>
         IN  IF \E i \in 1..3 : ~impls[i].ok THEN Panic
             ELSE MinByKeyFrom(impls, impls[1], 2)

-----------------------------------------------------------------------------
(* Instructions and operations (bicycle_isa/src/lib.rs, operation.rs)      *)

\* Pauli::anticommuting; only called on a non-identity Pauli
anticommuting(p) ==
    IF p = "X" THEN <<"Z", "Y">>
    ELSE IF p = "Z" THEN <<"X", "Y">>
    ELSE <<"X", "Z">>

Measure(bases) == [op |-> "Measure", bases |-> bases]
JointMeasure(bases) == [op |-> "JointMeasure", bases |-> bases]
TGate(data) == [op |-> "TGate", data |-> data]
Automorphism(aut) == [op |-> "Automorphism", aut |-> aut]

TGateDataNew(basis, primed, adjoint) ==
    [basis |-> basis, primed |-> primed, adjoint |-> adjoint]

\* an Operation is a sequence of <<block, instruction>>; blocks count from 0

\* PathArchitecture::validate_operation (op[0], op[1] index out of range on an empty op)
validate_operation(op) ==
    IF Len(op) = 1 THEN TRUE
    ELSE IF Len(op) = 0 THEN Panic
    ELSE LET d == op[1][1] - op[2][1] IN (IF d < 0 THEN 0 - d ELSE d) = 1

-----------------------------------------------------------------------------
(* BasisChanger (pbc_gross/src/basis_changer.rs)                           *)

\* BasisChanger::new; Panic stands for the Err that the callers unwrap
BasisChangerNew(x, y, z) ==
    IF x = y \/ y = z \/ z = x THEN Panic ELSE [x |-> x, y |-> y, z |-> z]

BasisChangerDefault == [x |-> "X", y |-> "Y", z |-> "Z"]

change_pauli(self, p) ==
    IF p = "I" THEN "I"
    ELSE IF p = "Z" THEN self.z
    ELSE IF p = "X" THEN self.x
    ELSE self.y

two_bases(self, bases) == TwoBasesNew(change_pauli(self, bases.p1), bases.p7)

\* BasisChanger::change_isa of crates/pbc_gross, the one with the Default that
\* compile.rs uses
change_isa(self, instr) ==
    IF instr.op = "Measure" THEN Measure(two_bases(self, instr.bases))
    ELSE IF instr.op = "JointMeasure" THEN JointMeasure(two_bases(self, instr.bases))
    ELSE IF instr.op = "TGate"
         THEN TGate(TGateDataNew(change_pauli(self, instr.data.basis),
                                 instr.data.primed, instr.data.adjoint))
    ELSE IF instr.op = "Automorphism" THEN instr
    ELSE Panic

\* BasisChanger::change_isa of src/pbc_gross
change_isa_src(self, instr) ==
    IF instr.op = "Measure" \/ instr.op = "JointMeasure"
    THEN JointMeasure(two_bases(self, instr.bases))
    ELSE IF instr.op = "TGate"
         THEN TGate(TGateDataNew(change_pauli(self, instr.data.basis),
                                 instr.data.primed, instr.data.adjoint))
    ELSE IF instr.op = "Automorphism" THEN instr
    ELSE Panic

-----------------------------------------------------------------------------
(* Small-angle synthesis (bicycle_compiler/src/small_angle.rs)             *)

\* angles in units of pi/8, so that T_ANGLE = FRAC_PI_4 is 2
T_ANGLE == 2

\* accuracies in units of 1e-2; the assert of synthesize_angle allows 1e-1
MaxAccuracy == 10

SingleRotation(basis, dagger) == [basis |-> basis, dagger |-> dagger]

take_dagger(rot) == SingleRotation(rot.basis, ~rot.dagger)

switch_basis(rot) == SingleRotation(IF rot.basis = "Z" THEN "X" ELSE "Z", rot.dagger)

At(gates, i, word) ==
    /\ i + Len(word) - 1 <= Len(gates)
    /\ SubSeq(gates, i, i + Len(word) - 1) = word

RECURSIVE MainMatches(_, _)
\* (HT|SHT)* from position i, greedy: the lengths of the matched syllables
MainMatches(gates, i) ==
    IF At(gates, i, <<"H", "T">>) THEN <<2>> \o MainMatches(gates, i + 2)
    ELSE IF At(gates, i, <<"S", "H", "T">>) THEN <<3>> \o MainMatches(gates, i + 3)
    ELSE <<>>

RECURSIVE CliffordChars(_, _)
\* [HXSW]* from position i, greedy
CliffordChars(gates, i) ==
    IF i <= Len(gates) /\ gates[i] \in {"H", "X", "S", "W"}
    THEN <<gates[i]>> \o CliffordChars(gates, i + 1)
    ELSE <<>>

RECURSIVE SumFrom(_, _)
SumFrom(s, i) == IF i > Len(s) THEN 0 ELSE s[i] + SumFrom(s, i + 1)

\* one pass that pushes its rotation without switching the basis
RotStepSameBasis(st, syllable) ==
    LET dag == IF syllable # 3 THEN st
               ELSE IF st.rotations # <<>>
                    THEN [st EXCEPT !.rotations[Len(st.rotations)] = take_dagger(@)]
                    ELSE [st EXCEPT !.s_start = TRUE]
        z == dag.z_basis
    IN  [dag EXCEPT !.z_basis = z,
                    !.rotations = Append(@, SingleRotation(IF z THEN "Z" ELSE "X", FALSE))]

\* one pass of the loop over the syllables of main
RotStep(st, syllable) ==
    LET dag == IF syllable # 3 THEN st
               ELSE IF st.rotations # <<>>
                    THEN [st EXCEPT !.rotations[Len(st.rotations)] = take_dagger(@)]
                    ELSE [st EXCEPT !.s_start = TRUE]
        z == ~dag.z_basis
    IN  [dag EXCEPT !.z_basis = z,
                    !.rotations = Append(@, SingleRotation(IF z THEN "Z" ELSE "X", FALSE))]

RECURSIVE RotLoop(_, _, _)
RotLoop(st, main, i) ==
    IF i > Len(main) THEN st
    ELSE RotLoop(Only({RotStep(s, main[i]) : s \in {st}}), main, i + 1)

\* compile_rots: parse a Matsumoto-Amano normal form into rotations and Cliffords
compile_rots(gates) ==
    LET first == At(gates, 1, <<"T">>)
        start == IF first THEN 2 ELSE 1
        main == MainMatches(gates, start)
        clifford == CliffordChars(gates, start + SumFrom(main, 1))
        st == RotLoop([rotations |-> IF first THEN <<SingleRotation("Z", FALSE)>> ELSE <<>>,
                       s_start |-> FALSE, z_basis |-> TRUE], main, 1)
        head == IF st.z_basis THEN <<>>
                ELSE IF clifford # <<>> /\ clifford[1] = "H" THEN <<>> ELSE <<"H">>
        cliff_chars == IF ~st.z_basis /\ clifford # <<>> /\ clifford[1] = "H"
                       THEN Tail(clifford) ELSE clifford
    IN  [rotations |-> st.rotations,
         cliffords |-> head \o cliff_chars \o (IF st.s_start THEN <<"S">> ELSE <<>>)]

\* what run_gridsynth can return: an error, or the gate string the external program prints
GridsynthError == <<"error">>

abs(x) == IF x < 0 THEN 0 - x ELSE x

NoInsert(cache_, key, res) == cache_

\* CACHE.insert
CacheInsert(cache_, key, res) == [k \in DOMAIN cache_ \cup {key} |-> IF k = key THEN res ELSE cache_[k]]

\* synthesize_angle; gridsynth is the output of the external program, read only on a miss.
\* Returns the result and the cache afterwards.
synthesize_angle(cache_, theta, accuracy, gridsynth) ==
    IF accuracy > MaxAccuracy THEN Panic
    ELSE IF abs(theta) = T_ANGLE
    THEN [ok |-> TRUE, cache |-> cache_,
          res |-> [rotations |-> <<SingleRotation("Z", theta < 0)>>, cliffords |-> <<>>]]
    ELSE IF <<theta, accuracy>> \in DOMAIN cache_
    THEN [ok |-> TRUE, cache |-> cache_, res |-> cache_[<<theta, accuracy>>]]
    ELSE IF gridsynth = GridsynthError THEN Panic
    ELSE LET res == compile_rots(gridsynth)
         IN  [ok |-> TRUE, res |-> res,
              cache |-> CacheInsert(cache_, <<theta, accuracy>>, res)]

synthesize_angle_x(cache_, theta, accuracy, gridsynth) ==
    LET s == synthesize_angle(cache_, theta, accuracy, gridsynth)
    IN  IF ~s.ok THEN Panic
        ELSE [ok |-> TRUE, cache |-> s.cache,
              res |-> [rotations |-> [i \in 1..Len(s.res.rotations) |->
                                         switch_basis(s.res.rotations[i])] \o <<>>,
                       cliffords |-> <<"H">> \o s.res.cliffords \o <<"H">>]]

-----------------------------------------------------------------------------
(* The per-operation compiler (pbc_gross/src/compile.rs)                   *)

\* number of data qubits of a block (11 in the source): all but the pivot
BlockSize == NQ - 1

\* the pairs of start..(end-2) in ascending order
GhzStartsAscending(start, end) == SetToSeqAsc(start..(end - 2))

\* the even-offset pairs, then the odd-offset pairs, of start..(end-2)
GhzStarts(start, end) ==
    LET rs(from) == {r \in from..(end - 2) : (r - from) % 2 = 0}
    IN  SetToSeqAsc(rs(start)) \o SetToSeqAsc(rs(start + 1))

ghz_meas_skip(start, blocks) ==
    IF blocks <= 0 THEN Panic
    ELSE LET z1 == TwoBasesNew("Z", "I")
             rs == GhzStarts(start, start + blocks)
         IN  [ok  |-> TRUE,
              ops |-> [i \in 1..Len(rs) |->
                         << <<rs[i], JointMeasure(z1)>>, <<rs[i] + 2, JointMeasure(z1)>> >>]
                      \o <<>>]

\* ghz_meas: ZZ measurements on adjacent blocks of start..start+blocks-1
ghz_meas(start, blocks) ==
    IF blocks <= 0 THEN Panic
    ELSE LET z1 == TwoBasesNew("Z", "I")
             rs == GhzStarts(start, start + blocks)
         IN  [ok  |-> TRUE,
              ops |-> [i \in 1..Len(rs) |->
                         << <<rs[i], JointMeasure(z1)>>, <<rs[i] + 1, JointMeasure(z1)>> >>]
                      \o <<>>]

\* rotation_instructions: a native measurement between the two pivot measurements
rotation_instructions(native_measurement) ==
    LET pivot_pauli == get_pauli(native_measurement.measures, 0)
    IN  IF pivot_pauli = "I" THEN Panic
        ELSE LET pp == anticommuting(pivot_pauli)
             IN  [ok  |-> TRUE,
                  ops |-> <<Measure(TwoBasesNew(pp[1], "I"))>>
                          \o NativeImplementation(native_measurement.native)
                          \o <<Measure(TwoBasesNew(pp[2], "I"))>>]

\* extend_basis: pad with identities to a multiple of the block size
extend_basis(basis) ==
    LET pad == (BlockSize - (Len(basis) % BlockSize)) % BlockSize
    IN  basis \o [i \in 1..pad |-> "I"]

SelectYZSwap(p_pivot) == BasisChangerNew("X", p_pivot, "Y")

\* select_basis_change, arm (Y, Z)
SelectYZ(p_pivot) == BasisChangerNew("Y", p_pivot, "X")

SelectXYSwap(p_pivot) == BasisChangerNew(p_pivot, "X", "Z")

\* select_basis_change, arm (X, Y)
SelectXY(p_pivot) == BasisChangerNew(p_pivot, "Z", "X")

\* select_basis_change: Panic stands for unreachable!()
select_basis_change(p_expected, p_pivot) ==
    IF p_expected = p_pivot /\ p_expected # "I" THEN BasisChangerDefault
    ELSE IF p_expected = "Y" /\ p_pivot = "X" THEN BasisChangerNew("Y", p_pivot, "Z")
    ELSE IF p_expected = "Y" /\ p_pivot = "Z" THEN SelectYZ(p_pivot)
    ELSE IF p_expected = "X" /\ p_pivot = "Z" THEN BasisChangerNew(p_pivot, "Y", "X")
    ELSE IF p_expected = "X" /\ p_pivot = "Y" THEN SelectXY(p_pivot)
    ELSE IF p_expected = "Z" /\ p_pivot = "Y" THEN Panic
    ELSE IF p_expected = "Z" /\ p_pivot = "X" THEN BasisChangerNew("Z", "Y", p_pivot)
    ELSE Panic

\* BlockBases::change_basis; self.0[block_i] is out of range past the last changer
change_basis(block_basis, op) ==
    IF \E i \in 1..Len(op) : op[i][1] >= Len(block_basis) THEN Panic
    ELSE LET changed == [i \in 1..Len(op) |->
                           <<op[i][1], change_isa(block_basis[op[i][1] + 1], op[i][2])>>]
                        \o <<>>
         IN  IF \E i \in 1..Len(changed) : changed[i][2] = Panic THEN Panic
             ELSE [ok |-> TRUE, op |-> changed]

\* an Operation holding one instruction per element of instrs, all on block_i
SingleOps(block_i, instrs) ==
    [j \in 1..Len(instrs) |-> << <<block_i, instrs[j]>> >>] \o <<>>

\* a block whose chunk is all identities has no implementation
NoImpl == [kind |-> "None"]

\* the closure over basis.chunks_exact(): the implementation of a chunk and the
\* changer that maps p_expected to the pivot Pauli of that implementation
block_instr(tbl, lookup, paulis, p_expected) ==
    IF \A i \in 1..Len(paulis) : paulis[i] = "I"
    THEN [ok |-> TRUE, impl |-> NoImpl, changer |-> BasisChangerDefault]
    ELSE LET meas_impl == min_data(tbl, lookup, FromPaulis(<<"I">> \o paulis))
         IN  IF ~meas_impl.ok THEN Panic
             ELSE LET changer == select_basis_change(p_expected,
                                                     get_pauli(meas_impl.measures, 0))
                  IN  IF changer = Panic THEN Panic
                      ELSE [ok |-> TRUE, impl |-> meas_impl, changer |-> changer]

\* the loop "for nat_measure in meas_impl.rotations()" of one block
BlockRotationOps(block_i, meas_impl) ==
    IF meas_impl = NoImpl THEN [ok |-> TRUE, ops |-> <<>>]
    ELSE LET ris == [j \in 1..Len(meas_impl.rotations) |->
                        rotation_instructions(meas_impl.rotations[j])] \o <<>>
         IN  IF \E j \in 1..Len(ris) : ~ris[j].ok THEN Panic
             ELSE [ok  |-> TRUE,
                   ops |-> Concat([j \in 1..Len(ris) |-> SingleOps(block_i, ris[j].ops)]
                                  \o <<>>)]

\* the pre- and post-rotations: the loop over the blocks that have an implementation
RotationOps(meas_impls) ==
    LET per == [b \in 1..Len(meas_impls) |-> BlockRotationOps(b - 1, meas_impls[b])] \o <<>>
    IN  IF \E b \in 1..Len(per) : ~per[b].ok THEN Panic
        ELSE [ok |-> TRUE, ops |-> Concat([b \in 1..Len(per) |-> per[b].ops] \o <<>>)]

\* the base measurements, not basis-changed
BaseOps(meas_impls) ==
    Concat([b \in 1..Len(meas_impls) |->
               IF meas_impls[b] = NoImpl THEN <<>>
               ELSE SingleOps(b - 1, NativeImplementation(meas_impls[b].base.native))]
           \o <<>>)

\* .map(|op| block_basis.change_basis(op)) over a list of operations
ChangeAll(block_basis, ops) ==
    LET changed == [i \in 1..Len(ops) |-> change_basis(block_basis, ops[i])] \o <<>>
    IN  IF \E i \in 1..Len(changed) : ~changed[i].ok THEN Panic
        ELSE [ok |-> TRUE, ops |-> [i \in 1..Len(changed) |-> changed[i].op] \o <<>>]

ExpectedPauliZ(block_i, n, last_expected) ==
    IF block_i < n - 1 THEN "Z" ELSE last_expected

\* the Pauli that the changer of block block_i maps to the pivot Pauli: Y, and on
\* the last block of a rotation (the magic module next to the factory) X
ExpectedPauli(block_i, n, last_expected) ==
    IF block_i < n - 1 THEN "Y" ELSE last_expected

\* the chunks of the extended basis, each with its implementation and changer;
\* the last of n blocks is next to the factory when last_expected is X
BlockInstrs(n, tbl, lookup, basis, last_expected) ==
    LET ext == extend_basis(basis)
    IN  [b \in 1..(Len(ext) \div BlockSize) |->
            block_instr(tbl, lookup, SubSeq(ext, (b - 1) * BlockSize + 1, b * BlockSize),
                        ExpectedPauli(b - 1, n, last_expected))] \o <<>>

\* uncompute measurements in descending block order
UncomputeDescending(meas_impls, upto) ==
    [b \in 1..upto |->
        << <<upto - b, Measure(TwoBasesNew(IF meas_impls[upto - b + 1] = NoImpl
                                           THEN "X" ELSE "Y", "I"))>> >>]
    \o <<>>

\* the uncompute measurements of the first upto blocks
Uncompute(meas_impls, upto) ==
    [b \in 1..upto |->
        << <<b - 1, Measure(TwoBasesNew(IF meas_impls[b] = NoImpl THEN "X" ELSE "Y", "I"))>> >>]
    \o <<>>

\* compile_measurement after the implementations of the blocks are found
MeasurementOps(n, instrs) ==
    LET k == Len(instrs)
    IN  IF (\E b \in 1..k : ~instrs[b].ok) \/ k > n THEN Panic
        ELSE
        LET meas_impls == [b \in 1..k |-> instrs[b].impl] \o <<>>
            block_basis == [b \in 1..k |-> instrs[b].changer] \o <<>>
            rots == RotationOps(meas_impls)
            prep == ChangeAll(block_basis,
                        [b \in 1..n |-> << <<b - 1, Measure(TwoBasesNew("X", "I"))>> >>] \o <<>>)
            nontrivial == {b \in 1..k : meas_impls[b] # NoImpl}
        IN  IF ~rots.ok \/ ~prep.ok \/ nontrivial = {} THEN Panic
            ELSE
            LET first_nontrivial == (CHOOSE b \in nontrivial : \A c \in nontrivial : b <= c) - 1
                last_nontrivial == (CHOOSE b \in nontrivial : \A c \in nontrivial : b >= c) - 1
                ghz == ghz_meas(first_nontrivial, last_nontrivial - first_nontrivial + 1)
            IN  IF ~ghz.ok THEN Panic
                ELSE
                LET middle == ChangeAll(block_basis, ghz.ops \o Uncompute(meas_impls, k))
                IN  IF ~middle.ok THEN Panic
                    ELSE [ok  |-> TRUE,
                          ops |-> rots.ops \o prep.ops \o BaseOps(meas_impls)
                                  \o middle.ops \o rots.ops]

\* compile_measurement on an architecture of n data blocks
compile_measurement(n, tbl, lookup, basis) ==
    Only({MeasurementOps(n, instrs) : instrs \in {BlockInstrs(n, tbl, lookup, basis, "Y")}})

\* TGate operations that are primed
TGateOpsPrimed(block_i, rots) ==
    [i \in 1..Len(rots) |->
        << <<block_i, TGate(TGateDataNew(rots[i].basis, TRUE, rots[i].dagger))>> >>] \o <<>>

\* the TGate operations on the magic block, one per synthesized rotation
TGateOps(block_i, rots) ==
    [i \in 1..Len(rots) |->
        << <<block_i, TGate(TGateDataNew(rots[i].basis, FALSE, rots[i].dagger))>> >>] \o <<>>

\* compile_rotation after the implementations of the blocks are found
RotationOpsOf(n, instrs, angle, accuracy, cache_, gridsynth) ==
    LET k == Len(instrs)
    IN  IF (\E b \in 1..k : ~instrs[b].ok) \/ k > n THEN Panic
        ELSE
        LET meas_impls == [b \in 1..k |-> instrs[b].impl] \o <<>>
            block_basis == [b \in 1..k |-> instrs[b].changer] \o <<>>
            rots == RotationOps(meas_impls)
            prep == ChangeAll(block_basis,
                        [b \in 1..n |-> << <<b - 1, Measure(TwoBasesNew(IF b < n THEN "X" ELSE "Y",
                                                                        "I"))>> >>] \o <<>>)
            nontrivial == {b \in 1..k : meas_impls[b] # NoImpl}
            first_nontrivial == IF nontrivial = {} THEN n - 1
                                ELSE (CHOOSE b \in nontrivial : \A c \in nontrivial : b <= c) - 1
        IN  IF ~rots.ok \/ ~prep.ok THEN Panic
            ELSE
            LET ghz == ghz_meas(first_nontrivial, n - first_nontrivial)
                synth == synthesize_angle_x(cache_, angle, accuracy, gridsynth)
            IN  IF ~ghz.ok \/ ~synth.ok THEN Panic
                ELSE
                LET upto == IF k < n - 1 THEN k ELSE n - 1
                    middle == ChangeAll(block_basis,
                                  ghz.ops \o TGateOps(n - 1, synth.res.rotations)
                                  \o Uncompute(meas_impls, upto)
                                  \o << << <<n - 1, Measure(TwoBasesNew("Z", "I"))>> >> >>)
                IN  IF ~middle.ok THEN Panic
                    ELSE [ok    |-> TRUE,
                          cache |-> synth.cache,
                          ops   |-> rots.ops \o prep.ops \o BaseOps(meas_impls)
                                    \o middle.ops \o rots.ops]

\* compile_rotation on an architecture of n data blocks; returns the operations
\* and the synthesis cache afterwards
compile_rotation(n, tbl, lookup, basis, angle, accuracy, cache_, gridsynth) ==
    IF n <= 0 THEN Panic
    ELSE Only({RotationOpsOf(n, instrs, angle, accuracy, cache_, gridsynth) :
                  instrs \in {BlockInstrs(n, tbl, lookup, basis, "X")}})

\* PbcOperation::compile
compile(operation, n, tbl, lookup, accuracy, cache_, gridsynth) ==
    IF operation.kind = "Measurement"
    THEN LET c == compile_measurement(n, tbl, lookup, operation.basis)
         IN  IF ~c.ok THEN Panic ELSE [ok |-> TRUE, cache |-> cache_, ops |-> c.ops]
    ELSE compile_rotation(n, tbl, lookup, operation.basis, operation.angle, accuracy,
                          cache_, gridsynth)

NoResult == [kind |-> "none"]

\* a caller asks the completed table for the implementation of p
Implementation ==
    /\ pc = "complete"
    /\ result = NoResult
    /\ \E p \in PauliStrings :
          result' = [kind |-> "implementation", p |-> p,
                     impl |-> implementation(measurements, native_measurements, p)]
    /\ UNCHANGED <<tvars, cache, kept, history, xvars>>

\* a caller asks the completed table for the cheapest pivot of the data string p
MinData ==
    /\ pc = "complete"
    /\ result = NoResult
    /\ \E p \in PauliStrings :
          /\ pivot_bits(p) = ID
          /\ result' = [kind |-> "min_data", p |-> p,
                        impl |-> min_data(measurements, native_measurements, p)]
    /\ UNCHANGED <<tvars, cache, kept, history, xvars>>

\* the caller takes the returned value
Consume ==
    /\ result # NoResult
    /\ result' = NoResult
    /\ UNCHANGED <<tvars, cache, kept, history, xvars>>

-----------------------------------------------------------------------------
(* Calls into the compiler                                                 *)

\* largest number of data blocks of an architecture
MaxBlocks == 3

\* the chunks the bases are put together from
BasisChunks == {<<"I", "I", "I">>, <<"I", "I", "X">>, <<"Y", "I", "Y">>}

\* a last chunk that extend_basis has to pad
ShortChunks == {<<>>, <<"Z">>}

RECURSIVE ChunkSeqs(_)
\* the bases of k whole chunks
ChunkSeqs(k) ==
    IF k = 0 THEN {<<>>}
    ELSE {c \o rest : c \in BasisChunks, rest \in ChunkSeqs(k - 1)}

\* the bases offered to an architecture of n blocks: too short, fitting, one chunk too long
Bases(n) ==
    {whole \o short : whole \in UNION {ChunkSeqs(k) : k \in 0..n}, short \in ShortChunks}

Angles == {T_ANGLE, 0 - T_ANGLE, 1}

Accuracies == {1, MaxAccuracy + 1}

\* what the external gridsynth may print, or its failure
GridsynthOutputs ==
    {GridsynthError,
     <<"T", "H", "T", "S", "H", "T", "H", "S">>,
     <<"S", "H", "T", "H", "T", "X", "W">>}

PbcOperationsOf(bases, angles) ==
    {[kind |-> "Measurement", basis |-> b, flip_result |-> f] : b \in bases, f \in BOOLEAN}
    \cup {[kind |-> "Rotation", basis |-> b, angle |-> a] : b \in bases, a \in angles}

PbcOperations(n) == PbcOperationsOf(Bases(n), Angles)

\* one call of PbcOperation::compile on the completed table
CompileCall(n, operation, accuracy, gridsynth) ==
    /\ pc = "complete"
    /\ result = NoResult
    /\ \E out \in {compile(operation, n, measurements, native_measurements,
                            accuracy, cache, gridsynth)} :
          /\ result' = [kind |-> "compile", operation |-> operation, n |-> n,
                        accuracy |-> accuracy, out |-> out]
          /\ cache' = IF out.ok THEN out.cache ELSE cache
    /\ UNCHANGED <<tvars, kept, history, xvars>>

\* the caller compiles some operation
Compile ==
    \E n \in 0..MaxBlocks, accuracy \in Accuracies, gridsynth \in GridsynthOutputs :
       \E operation \in PbcOperations(n) :
          CompileCall(n, operation, accuracy, gridsynth)

\* the bases of the operations that are compiled repeatedly: n equal chunks
RepeatedBases(n) ==
    {[i \in 1..(n * BlockSize) |-> c[((i - 1) % BlockSize) + 1]] \o <<>> :
        c \in BasisChunks \ {<<"I", "I", "I">>}}

\* a repeating program also rotates by a second angle that has to be synthesized
RepeatedOperations(n) == PbcOperationsOf(RepeatedBases(n), Angles \cup {0 - 3})

\* the caller compiles an operation of a program that repeats its operations, on
\* the one architecture of the run
CompileRepeated ==
    \E accuracy \in Accuracies, gridsynth \in GridsynthOutputs :
       \E operation \in RepeatedOperations(MaxBlocks) :
          CompileCall(MaxBlocks, operation, accuracy, gridsynth)

\* the caller keeps one compiled output to compare later ones with
KeepFirst ==
    /\ result # NoResult
    /\ result.kind = "compile"
    /\ result.out.ok
    /\ kept = NoResult
    /\ kept' = result
    /\ result' = NoResult
    /\ UNCHANGED <<tvars, cache, history, xvars>>

vars == <<code, measurements, native_measurements, len, base_rots,
          prev_paulis, next_paulis, cur, pc, result, cache, kept, history, xvars>>

\* main(): nothing read from stdin yet
StreamInit ==
    stream = [status |-> "running", read |-> 0, written |-> 0,
              architecture |-> 0, accuracy |-> 0]

\* run_numerics before the first chunk is pulled: depths and times are zero for
\* every data block, no error, no row yet
NumericsInit ==
    numerics = [status |-> "running",
                depths |-> [b \in 1..MaxBlocks |-> 0],
                times |-> [b \in 1..MaxBlocks |-> 0],
                total_error |-> 0,
                cli |-> [max_error |-> 0, max_iter |-> 0, model |-> "none"],
                rows |-> <<>>,
                trace |-> <<>>]

NumThreads == 2

Threads == 1..NumThreads

\* a thread that is not inside synthesize_angle
IdleThread ==
    [pc |-> "idle", theta |-> 0, accuracy |-> 0, hit |-> FALSE, invoked |-> FALSE,
     res |-> <<>>]

\* CACHE is unlocked and no thread is inside synthesize_angle
SynthInit ==
    sync = [holders |-> {}, threads |-> [t \in Threads |-> IdleThread]]

Init ==
    /\ TableInit
    /\ result = NoResult
    /\ cache = <<>>
    /\ kept = NoResult
    /\ history = <<>>
    /\ StreamInit
    /\ NumericsInit
    /\ SynthInit

Next ==
    \/ BuildStart \/ BuildPass \/ BuildConjugate \/ BuildPassEnd \/ Complete
    \/ Implementation \/ MinData \/ Consume

Spec == Init /\ [][Next]_vars

\* build() and complete() alone; the loop of build() is not interrupted
NextBuild ==
    BuildStart \/ BuildPass \/ BuildConjugate \/ BuildPassEnd \/ Complete

SpecBuild ==
    /\ Init
    /\ [][NextBuild]_vars
    /\ WF_vars(BuildStart) /\ WF_vars(BuildPass)
    /\ WF_vars(BuildConjugate) /\ WF_vars(BuildPassEnd)

NextCompile ==
    \/ BuildStart \/ BuildPass \/ BuildConjugate \/ BuildPassEnd \/ Complete
    \/ Compile \/ Consume

SpecCompile == Init /\ [][NextCompile]_vars

NextRepeated ==
    \/ BuildStart \/ BuildPass \/ BuildConjugate \/ BuildPassEnd \/ Complete
    \/ CompileRepeated \/ KeepFirst \/ Consume

SpecRepeated == Init /\ [][NextRepeated]_vars

-----------------------------------------------------------------------------
(* The stream optimizer (bicycle_compiler/src/optimize.rs)                 *)

\* Option::None in the history
NoInstr == [op |-> "None"]

\* history.resize_with(history.len().max(i + 1), Default::default)
Resize(hist, i) ==
    IF i + 1 <= Len(hist) THEN hist
    ELSE hist \o [j \in 1..(i + 1 - Len(hist)) |-> NoInstr]

RECURSIVE FilterLoop(_, _, _)
\* the closure of the filter, from entry j of ops_list: whether the operation is
\* retained, and the history when the closure returns
FilterLoop(hist, ops_list, j) ==
    IF j > Len(ops_list) THEN [keep |-> TRUE, history |-> hist]
    ELSE LET i == ops_list[j][1]
             instr == ops_list[j][2]
         IN  IF instr.op = "Measure" /\ Resize(hist, i)[i + 1] = instr
             THEN [keep |-> FALSE, history |-> Resize(hist, i)]
             ELSE FilterLoop(Only({[h EXCEPT ![i + 1] = instr] : h \in {Resize(hist, i)}}),
                             ops_list, j + 1)

OptimizerInstructions ==
    {Measure(TwoBasesNew("X", "I")), Measure(TwoBasesNew("Z", "I")),
     JointMeasure(TwoBasesNew("Z", "I"))}

\* operations of one or two entries, on different blocks
OptimizerOperations ==
    LET entries == {<<b, i>> : b \in 0..(MaxBlocks - 1), i \in OptimizerInstructions}
    IN  {<<e>> : e \in entries}
        \cup {p \in entries \X entries : p[1][1] # p[2][1]}

\* remove_duplicate_measurements_chunked pulls the next operation through its filter
Filter ==
    /\ result = NoResult
    /\ \E ops_list \in OptimizerOperations :
          \E r \in {FilterLoop(history, ops_list, 1)} :
             /\ result' = [kind |-> "filter", ops_list |-> ops_list,
                           before |-> history, keep |-> r.keep]
             /\ history' = r.history
    /\ UNCHANGED <<tvars, cache, kept, xvars>>

NextOptimize == Filter \/ Consume

SpecOptimize == Init /\ [][NextOptimize]_vars

-----------------------------------------------------------------------------
(* The compile-and-optimize pipeline (bicycle_compiler/src/main.rs)        *)

\* largest number of operations read from stdin
MaxOps == 2

\* PathArchitecture::for_qubits: qubits.div_ceil(block size)
for_qubits(qubits) == (qubits + BlockSize - 1) \div BlockSize

TrivialAutomorphism(op) ==
    Len(op) = 1 /\ op[1][2].op = "Automorphism" /\ op[1][2].aut = AutNew(0, 0)

NonTrivial(op) == ~TrivialAutomorphism(op)

\* remove_trivial_automorphisms
remove_trivial_automorphisms(ops) == SelectSeq(ops, NonTrivial)

ChunkPrepend(chunk, op) == <<op>> \o chunk

\* .collect() of the retained operations of a chunk
ChunkAppend(chunk, op) == Append(chunk, op)

\* the filter of remove_duplicate_measurements_chunked applied to operation i of a chunk
FilterChunkStep(st, ops, i) ==
    LET r == FilterLoop(st.history, ops[i], 1)
    IN  [history |-> r.history,
         chunk   |-> IF r.keep THEN ChunkAppend(st.chunk, ops[i]) ELSE st.chunk]

RECURSIVE FilterChunkRange(_, _, _, _)
\* the filter applied to operations lo..hi of a chunk, in order
FilterChunkRange(st, ops, lo, hi) ==
    IF lo > hi THEN st
    ELSE IF lo = hi THEN FilterChunkStep(st, ops, lo)
    ELSE LET mid == (lo + hi) \div 2
         IN  Only({FilterChunkRange(left, ops, mid + 1, hi) :
                      left \in {FilterChunkRange(st, ops, lo, mid)}})

\* remove_duplicate_measurements_chunked on one chunk, from the history hist
FilterChunk(hist, ops) ==
    Only({FilterChunkRange([history |-> hist, chunk |-> <<>>], o, 1, Len(o)) : o \in {ops}})

\* the operations on stdin: bases one block shorter than, as long as, and padded to
\* the widest architecture
StreamBases ==
    RepeatedBases(MaxBlocks) \cup RepeatedBases(MaxBlocks - 1)
    \cup {b \o <<"Z">> : b \in RepeatedBases(MaxBlocks - 1)}

StreamOperations ==
    {[kind |-> "Measurement", basis |-> b, flip_result |-> FALSE] : b \in StreamBases}
    \cup {[kind |-> "Rotation", basis |-> b, angle |-> a] : b \in StreamBases, a \in {T_ANGLE, 1}}

\* main(): the output iterator is pulled once: the next operation is read from
\* stdin, compiled for the architecture of the first operation, filtered twice and
\* written as one line; a panic or a write error ends the run
PipelineNext ==
    /\ pc = "complete"
    /\ stream.status = "running"
    /\ stream.read < MaxOps
    /\ \E operation \in StreamOperations, gridsynth \in GridsynthOutputs,
          acc \in Accuracies, write_ok \in BOOLEAN :
          \E n \in {IF stream.read = 0 THEN for_qubits(Len(operation.basis))
                    ELSE stream.architecture},
             accuracy \in {IF stream.read = 0 THEN acc ELSE stream.accuracy} :
             \E out \in {compile(operation, n, measurements, native_measurements,
                                 accuracy, cache, gridsynth)} :
                IF ~out.ok
                THEN /\ stream' = [stream EXCEPT !.status = "panicked", !.read = @ + 1,
                                                 !.architecture = n, !.accuracy = accuracy]
                     /\ result' = [kind |-> "panic"]
                     /\ UNCHANGED <<cache, history>>
                ELSE \E f \in {FilterChunk(history, remove_trivial_automorphisms(out.ops))} :
                        /\ cache' = out.cache
                        /\ history' = f.history
                        /\ stream' = [stream EXCEPT
                                         !.status = IF write_ok THEN "running" ELSE "stopped",
                                         !.read = @ + 1,
                                         !.written = IF write_ok THEN @ + 1 ELSE @,
                                         !.architecture = n, !.accuracy = accuracy]
                        /\ result' = [kind |-> "chunk", index |-> stream.read + 1,
                                      written |-> write_ok,
                                      compiled |-> out.ops, chunk |-> f.chunk]
    /\ UNCHANGED <<tvars, kept, numerics, sync>>

NextPipeline ==
    \/ BuildStart \/ BuildPass \/ BuildConjugate \/ BuildPassEnd \/ Complete
    \/ PipelineNext

SpecPipeline == Init /\ [][NextPipeline]_vars

-----------------------------------------------------------------------------
(* The numerics (bicycle_numerics/src/lib.rs, model.rs, main.rs)           *)

MaxRows == 3

\* the timing of GROSS_1E3 in cycles, and its error rates in units of 1e-11
GROSS_1E3 ==
    [timing |-> [idle |-> 8, shift |-> 12, inmodule |-> 120, intermodule |-> 120,
                 t_inj |-> 351 + 120],
     error |-> [idle |-> 161, shift |-> 40100, inmodule |-> 1110000,
                intermodule |-> 201000000, t_inj |-> 201000000]]

\* FAKE_SLOW: no errors at all
FAKE_SLOW ==
    [timing |-> [idle |-> 8, shift |-> 12, inmodule |-> 216, intermodule |-> 216,
                 t_inj |-> 2167 + 216],
     error |-> [idle |-> 0, shift |-> 0, inmodule |-> 0, intermodule |-> 0, t_inj |-> 0]]

ModelChoices == {"Gross1e3", "FakeSlow"}

ModelOf(choice) == IF choice = "Gross1e3" THEN GROSS_1E3 ELSE FAKE_SLOW

\* the instruction kinds that the counter and the models have an arm for
Counted(instruction) ==
    instruction.op \in {"TGate", "Automorphism", "Measure", "JointMeasure"}

\* TimingModel::timing; any other instruction is unreachable!()
timing(model, instruction) ==
    CASE instruction.op = "TGate" -> model.timing.t_inj
      [] instruction.op = "Automorphism" -> 2 * model.timing.shift
      [] instruction.op = "Measure" -> model.timing.inmodule
      [] instruction.op = "JointMeasure" -> model.timing.intermodule

\* ErrorModel::instruction_error
instruction_error(model, instruction) ==
    CASE instruction.op = "TGate" -> model.error.t_inj
      [] instruction.op = "Measure" -> model.error.inmodule
      [] instruction.op = "JointMeasure" -> model.error.intermodule
      [] instruction.op = "Automorphism" -> 2 * model.error.shift

\* ErrorModel::idling_error with idle_cycles = timing.idle
idling_error(model, time) ==
    LET idle_cycles == (time + model.timing.idle - 1) \div model.timing.idle
    IN  [cycles |-> idle_cycles, error |-> idle_cycles * model.error.idle]

nr_generators(aut) ==
    IF aut.x = 0 /\ aut.y = 0 THEN 0
    ELSE IF aut.x = 3 /\ aut.y = 3 THEN 1
    ELSE IF aut.x = 3 \/ aut.y = 3 THEN 2
    ELSE 1

IsaCounterDefault ==
    [idles |-> 0, t_injs |-> 0, automorphisms |-> 0, measurements |-> 0,
     joint_measurements |-> 0]

\* IsaCounter::add
IsaCounterAdd(counter, instr) ==
    CASE instr.op = "TGate" -> [counter EXCEPT !.t_injs = @ + 1]
      [] instr.op = "Automorphism" ->
            [counter EXCEPT !.automorphisms = @ + nr_generators(instr.aut)]
      [] instr.op = "Measure" -> [counter EXCEPT !.measurements = @ + 1]
      [] instr.op = "JointMeasure" -> [counter EXCEPT !.joint_measurements = @ + 1]

RECURSIVE CountFrom(_, _, _)
\* ops.iter().for_each(|instr| counter.add(&instr[0].1))
CountFrom(counter, ops, i) ==
    IF i > Len(ops) THEN counter
    ELSE CountFrom(IsaCounterAdd(counter, ops[i][1][2]), ops, i + 1)

RECURSIVE MaxOver(_, _, _, _)
\* the running maximum of vec over the blocks of entries k.. of op
MaxOver(op, vec, k, best) ==
    IF k > Len(op) THEN best
    ELSE MaxOver(op, vec, k + 1,
                 IF vec[op[k][1] + 1] > best THEN vec[op[k][1] + 1] ELSE best)

RECURSIVE MaxOf(_, _, _)
\* iter().max() of a vector that is not empty
MaxOf(vec, k, best) ==
    IF k > Len(vec) THEN best
    ELSE MaxOf(vec, k + 1, IF vec[k] > best THEN vec[k] ELSE best)

\* the depth of a block that does not count the instruction
DepthFlat(max_depth, instr) == max_depth

\* the depth written for a block of the operation
DepthAfter(max_depth, instr) ==
    IF instr.op \in {"Measure", "JointMeasure"} THEN max_depth + 1 ELSE max_depth

RECURSIVE EntriesFrom(_, _, _, _, _, _)
\* the second loop over the entries of op: depth, idling noise, time
EntriesFrom(st, model, op, k, max_depth, max_time) ==
    IF k > Len(op) THEN st
    ELSE LET block_i == op[k][1]
             instr == op[k][2]
             idle == idling_error(model, max_time - st.times[block_i + 1])
         IN  EntriesFrom(
                [st EXCEPT !.depths[block_i + 1] = DepthAfter(max_depth, instr),
                           !.times[block_i + 1] = max_time + timing(model, instr),
                           !.counter.idles = @ + idle.cycles,
                           !.total_error = @ + idle.error],
                model, op, k + 1, max_depth, max_time)

\* the body of `for op in ops`
RunOp(st, model, op) ==
    LET max_depth == MaxOver(op, st.depths, 1, 0)
        max_time == MaxOver(op, st.times, 1, 0)
        after == EntriesFrom(st, model, op, 1, max_depth, max_time)
        done == [after EXCEPT !.total_error = @ + instruction_error(model, op[1][2])]
    IN  [done EXCEPT !.trace = Append(@, [op |-> op,
                                          depths_before |-> st.depths,
                                          times_before |-> st.times,
                                          depths |-> done.depths,
                                          times |-> done.times])]

RECURSIVE RunOpsFrom(_, _, _, _)
RunOpsFrom(st, model, ops, i) ==
    IF i > Len(ops) THEN st
    ELSE Only({RunOpsFrom(next, model, ops, i + 1) : next \in {RunOp(st, model, ops[i])}})

\* the closure panics: an operation without entries or with an instruction that has
\* no arm (unreachable!()), or a block outside the architecture
ChunkPanics(ops, data_blocks) ==
    \E i \in 1..Len(ops) :
       \/ Len(ops[i]) = 0
       \/ \E k \in 1..Len(ops[i]) :
             \/ ~Counted(ops[i][k][2])
             \/ ops[i][k][1] >= data_blocks

\* the closure of run_numerics on chunk number i (counted from 0): the new vectors
\* and error, the OutputData of the chunk, and the vectors around each operation
RunChunk(depths, times, total_error, model, i, ops) ==
    LET st == RunOpsFrom([depths |-> depths, times |-> times,
                          total_error |-> total_error,
                          counter |-> CountFrom(IsaCounterDefault, ops, 1),
                          trace |-> <<>>], model, ops, 1)
    IN  [ok |-> TRUE, depths |-> st.depths, times |-> st.times,
         total_error |-> st.total_error, trace |-> st.trace,
         data |-> [i |-> i + 1,
                   idles |-> st.counter.idles,
                   t_injs |-> st.counter.t_injs,
                   automorphisms |-> st.counter.automorphisms,
                   measurements |-> st.counter.measurements,
                   joint_measurements |-> st.counter.joint_measurements,
                   measurement_depth |-> MaxOf(st.depths, 1, 0),
                   end_time |-> MaxOf(st.times, 1, 0),
                   total_error |-> st.total_error]]

run_numerics(depths, times, total_error, model, i, ops) ==
    IF ChunkPanics(ops, Len(depths)) \/ Len(depths) = 0 THEN Panic
    ELSE RunChunk(depths, times, total_error, model, i, ops)

\* the predicate without the exemption of the first row
KeepRowStrict(cli, data) ==
    data.total_error <= cli.max_error /\ data.i <= cli.max_iter

\* the predicate of take_while in main
KeepRow(cli, data) ==
    data.i = 1 \/ (data.total_error <= cli.max_error /\ data.i <= cli.max_iter)

\* the chunks of operations handed to run_numerics: what the compiler emits, an
\* empty chunk, and chunks that make the closure panic
NumericsChunks ==
    LET m == Measure(TwoBasesNew("X", "I"))
        j == JointMeasure(TwoBasesNew("Z", "I"))
        t == TGate(TGateDataNew("X", FALSE, FALSE))
        a == Automorphism(AutNew(1, 3))
    IN  {<<>>,
         << <<<<0, m>>>> >>,
         << <<<<1, t>>>> >>,
         << <<<<0, j>>, <<1, j>>>> >>,
         << <<<<MaxBlocks - 2, j>>, <<MaxBlocks - 1, j>>>> >>,
         << <<<<0, a>>>>, <<<<MaxBlocks - 1, m>>>> >>,
         << <<<<MaxBlocks, m>>>> >>,
         << <<>> >>,
         << <<<<0, [op |-> "CSSInitPlus"]>>>> >>}

\* the thresholds of the command line, in the units of the error rates
MaxErrors == {0, 250000000}

MaxIters == {0, MaxRows}

\* main(): the writer pulls the next row through take_while; the row is computed
\* from the next chunk on stdin, tested, and serialized
NumericsPull ==
    /\ numerics.status = "running"
    /\ Len(numerics.rows) < MaxRows
    /\ \E ops \in NumericsChunks, max_error \in MaxErrors, max_iter \in MaxIters,
          choice \in ModelChoices, write_ok \in BOOLEAN :
          \E cli \in {IF Len(numerics.rows) = 0
                      THEN [max_error |-> max_error, max_iter |-> max_iter,
                            model |-> choice]
                      ELSE numerics.cli} :
             \E out \in {run_numerics(numerics.depths, numerics.times,
                                      numerics.total_error, ModelOf(cli.model),
                                      Len(numerics.rows), ops)} :
                IF ~out.ok
                THEN numerics' = [numerics EXCEPT !.status = "panicked", !.cli = cli]
                ELSE \E keep \in {KeepRow(cli, out.data)} :
                        numerics' =
                           [numerics EXCEPT
                              !.status = IF ~keep THEN "stopped"
                                         ELSE IF ~write_ok THEN "write_error"
                                         ELSE "running",
                              !.cli = cli,
                              !.depths = out.depths,
                              !.times = out.times,
                              !.total_error = out.total_error,
                              !.trace = out.trace,
                              !.rows = Append(@, [data |-> out.data, passed |-> keep,
                                                  written |-> keep /\ write_ok])]
    /\ UNCHANGED <<tvars, result, cache, kept, history, stream, sync>>

\* stdin ends: the iterator returns None and main returns
NumericsEnd ==
    /\ numerics.status = "running"
    /\ numerics' = [numerics EXCEPT !.status = "done"]
    /\ UNCHANGED <<tvars, result, cache, kept, history, stream, sync>>

NextNumerics == NumericsPull \/ NumericsEnd

SpecNumerics == Init /\ [][NextNumerics]_vars

-----------------------------------------------------------------------------
(* Calls of PathArchitecture::validate_operation                           *)

\* the operations handed to validate_operation: any Vec of (block, instruction)
\* of up to three entries
ValidateEntries ==
    {<<b, instr>> : b \in 0..MaxBlocks,
                    instr \in {Measure(TwoBasesNew("X", "I")),
                               JointMeasure(TwoBasesNew("Z", "I"))}}

ValidateOperations ==
    {<<>>} \cup {<<e>> : e \in ValidateEntries}
    \cup {<<e, f>> : e, f \in ValidateEntries}
    \cup {<<e, f, g>> : e, f, g \in ValidateEntries}

\* a caller validates an operation; indexing an empty operation panics
ValidateOperation ==
    /\ result = NoResult
    /\ \E op \in ValidateOperations :
          result' = [kind |-> "validate_operation", op |-> op,
                     out |-> IF Len(op) = 0 THEN Panic
                             ELSE [ok |-> TRUE, value |-> validate_operation(op)]]
    /\ UNCHANGED <<tvars, cache, kept, history, xvars>>

NextValidate == ValidateOperation \/ Consume

SpecValidate == Init /\ [][NextValidate]_vars

-----------------------------------------------------------------------------
(* Threads inside synthesize_angle (bicycle_compiler/src/small_angle.rs)   *)

SynthAngles == {T_ANGLE, 1}

\* Mutex::try_lock succeeds when no guard is alive
try_lock(holders) == holders = {}

\* a guard that is never dropped
keep_guard(holders, t) == holders

\* the MutexGuard temporary is dropped at the end of its statement
drop_guard(holders, t) == holders \ {t}

\* a thread enters synthesize_angle: the assertion on the accuracy and the T gate
\* special case come before any use of the cache
SynthCall(t) ==
    /\ sync.threads[t].pc = "idle"
    /\ \E theta \in SynthAngles, accuracy \in Accuracies :
          sync' = [sync EXCEPT !.threads[t] =
                       [pc |-> IF accuracy > MaxAccuracy THEN "panicked"
                               ELSE IF abs(theta) = T_ANGLE THEN "returned"
                               ELSE "lookup",
                        theta |-> theta, accuracy |-> accuracy, hit |-> FALSE,
                        invoked |-> FALSE,
                        res |-> IF accuracy <= MaxAccuracy /\ abs(theta) = T_ANGLE
                                THEN [rotations |-> <<SingleRotation("Z", theta < 0)>>,
                                      cliffords |-> <<>>]
                                ELSE <<>>]]
    /\ UNCHANGED <<tvars, result, cache, kept, history, stream, numerics>>

\* CACHE.try_lock().unwrap(), before the lookup and before the insert: the guard is
\* taken, or unwrap panics because another thread holds it
SynthLock(t) ==
    /\ sync.threads[t].pc \in {"lookup", "insert"}
    /\ IF try_lock(sync.holders)
       THEN sync' = [sync EXCEPT
                         !.holders = @ \cup {t},
                         !.threads[t].pc = IF sync.threads[t].pc = "lookup"
                                           THEN "locked_get" ELSE "locked_insert"]
       ELSE sync' = [sync EXCEPT !.threads[t].pc = "panicked"]
    /\ UNCHANGED <<tvars, result, cache, kept, history, stream, numerics>>

\* .get(&(theta, accuracy)) and, on a hit, result.clone()
SynthGet(t) ==
    /\ sync.threads[t].pc = "locked_get"
    /\ LET key == <<sync.threads[t].theta, sync.threads[t].accuracy>>
       IN  IF key \in DOMAIN cache
           THEN sync' = [sync EXCEPT !.threads[t].pc = "got",
                                       !.threads[t].hit = TRUE,
                                       !.threads[t].res = cache[key]]
           ELSE sync' = [sync EXCEPT !.threads[t].pc = "got"]
    /\ UNCHANGED <<tvars, result, cache, kept, history, stream, numerics>>

\* the end of the `if let` statement, or of the insert statement: the guard is
\* dropped; a hit returns, a miss goes on to run_gridsynth
SynthUnlock(t) ==
    /\ sync.threads[t].pc \in {"got", "inserted"}
    /\ sync' = [sync EXCEPT
                    !.holders = drop_guard(@, t),
                    !.threads[t].pc = IF sync.threads[t].pc = "inserted"
                                         \/ sync.threads[t].hit
                                      THEN "returned" ELSE "miss"]
    /\ UNCHANGED <<tvars, result, cache, kept, history, stream, numerics>>

\* run_gridsynth starts the external program
SynthSpawn(t) ==
    /\ sync.threads[t].pc = "miss"
    /\ sync' = [sync EXCEPT !.threads[t].pc = "gridsynth",
                              !.threads[t].invoked = TRUE]
    /\ UNCHANGED <<tvars, result, cache, kept, history, stream, numerics>>

\* the external program ends; its output is parsed by compile_rots, an error panics
SynthExit(t) ==
    /\ sync.threads[t].pc = "gridsynth"
    /\ \E gridsynth \in GridsynthOutputs :
          IF gridsynth = GridsynthError
          THEN sync' = [sync EXCEPT !.threads[t].pc = "panicked"]
          ELSE sync' = [sync EXCEPT !.threads[t].pc = "insert",
                                      !.threads[t].res = compile_rots(gridsynth)]
    /\ UNCHANGED <<tvars, result, cache, kept, history, stream, numerics>>

\* .insert((theta, accuracy), res.clone())
SynthInsert(t) ==
    /\ sync.threads[t].pc = "locked_insert"
    /\ cache' = CacheInsert(cache, <<sync.threads[t].theta, sync.threads[t].accuracy>>,
                            sync.threads[t].res)
    /\ sync' = [sync EXCEPT !.threads[t].pc = "inserted"]
    /\ UNCHANGED <<tvars, result, kept, history, stream, numerics>>

\* the caller takes the result and the thread may call again
SynthReturn(t) ==
    /\ sync.threads[t].pc = "returned"
    /\ sync' = [sync EXCEPT !.threads[t] = IdleThread]
    /\ UNCHANGED <<tvars, result, cache, kept, history, stream, numerics>>

NextSynth ==
    \E t \in Threads :
       \/ SynthCall(t) \/ SynthLock(t) \/ SynthGet(t) \/ SynthUnlock(t)
       \/ SynthSpawn(t) \/ SynthExit(t) \/ SynthInsert(t) \/ SynthReturn(t)

SpecSynth == Init /\ [][NextSynth]_vars

-----------------------------------------------------------------------------
(* Calls of compile_rots                                                   *)

MaxSyllables == 3

HT == <<"H", "T">>

SHT == <<"S", "H", "T">>

\* the sequences of up to k syllables HT and SHT
SyllableSeqs(k) ==
    UNION {[1..m -> {HT, SHT}] : m \in 0..k}

\* endings of Clifford gates
CliffordTails ==
    {<<>>, <<"H">>, <<"S", "W">>, <<"H", "S">>, <<"X", "W">>}

\* the gate strings T?(HT|SHT)*[HXSW]* that gridsynth prints, with their parts
MAForms ==
    {[first |-> f, syllables |-> syl \o <<>>, tail |-> tl,
      gates |-> (IF f THEN <<"T">> ELSE <<>>) \o Concat(syl \o <<>>) \o tl] :
        f \in BOOLEAN, syl \in SyllableSeqs(MaxSyllables), tl \in CliffordTails}

\* the caller parses one gate string
CompileRots ==
    /\ result = NoResult
    /\ \E form \in MAForms :
          result' = [kind |-> "compile_rots", form |-> form,
                     out |-> compile_rots(form.gates)]
    /\ UNCHANGED <<tvars, cache, kept, history, xvars>>

NextRots == CompileRots \/ Consume

SpecRots == Init /\ [][NextRots]_vars

-----------------------------------------------------------------------------
(* Calls of ghz_meas                                                       *)

MaxStart == 9

MaxLength == 10

\* a caller asks for the GHZ measurements of blocks start..start+blocks-1
GhzMeas ==
    /\ result = NoResult
    /\ \E start \in 0..MaxStart, blocks \in 0..MaxLength :
          result' = [kind |-> "ghz_meas", start |-> start, blocks |-> blocks,
                     out |-> ghz_meas(start, blocks)]
    /\ UNCHANGED <<tvars, cache, kept, history, xvars>>

NextGhz == GhzMeas \/ Consume

SpecGhz == Init /\ [][NextGhz]_vars

-----------------------------------------------------------------------------
(* ensure_parent_dir (bicycle_compiler/src/lib.rs)                         *)

MaxProbes == 8

\* the name of the probe file of an attempt: pid, time and attempt number
Candidate(attempt) == <<".write_probe", attempt>>

\* a directory is a function from the names of its files to their contents
WithFile(files, name, content) ==
    [f \in DOMAIN files \cup {name} |-> IF f = name THEN content ELSE files[f]]

WithoutFile(files, name) == [f \in DOMAIN files \ {name} |-> files[f]]

\* an open that creates the file or truncates the one that is there
OpenCreate(files, name) == [ok |-> TRUE, files |-> WithFile(files, name, "")]

\* OpenOptions::new().write(true).create_new(true).open: fails with AlreadyExists
\* on a name that is taken, and creates an empty file otherwise
OpenCreateNew(files, name) ==
    IF name \in DOMAIN files THEN [ok |-> FALSE, files |-> files]
    ELSE [ok |-> TRUE, files |-> WithFile(files, name, "")]

RECURSIVE ProbeFrom(_, _, _, _)
\* the loop over the attempts and what follows it; env says which open fails with
\* another error and whether remove_file succeeds
ProbeFrom(files, attempt, env, errors) ==
    IF attempt = MaxProbes
    THEN [ret |-> "Err", files |-> files, attempts |-> attempt, errors |-> errors,
          probe |-> <<>>]
    ELSE IF env.open_error_at = attempt
    THEN [ret |-> "Err", files |-> files, attempts |-> attempt + 1,
          errors |-> errors \cup {"open"}, probe |-> <<>>]
    ELSE LET opened == OpenCreateNew(files, Candidate(attempt))
         IN  IF ~opened.ok THEN ProbeFrom(files, attempt + 1, env, errors)
             ELSE [ret |-> "Ok",
                   files |-> IF env.remove_ok
                             THEN WithoutFile(opened.files, Candidate(attempt))
                             ELSE opened.files,
                   attempts |-> attempt + 1,
                   errors |-> IF env.remove_ok THEN errors
                              ELSE errors \cup {"remove_file"},
                   probe |-> <<Candidate(attempt)>>]

\* ensure_parent_dir on a path whose parent directory holds files
ensure_parent_dir(has_parent, files, env) ==
    IF ~has_parent
    THEN [ret |-> "Ok", files |-> files, attempts |-> 0, errors |-> {}, probe |-> <<>>]
    ELSE IF ~env.mkdir_ok
    THEN [ret |-> "Err", files |-> files, attempts |-> 0,
          errors |-> {"create_dir_all"}, probe |-> <<>>]
    ELSE ProbeFrom(files, 0, env, {})

\* what the parent directory can hold before the call: the output file and any of
\* the probe names, left by other processes
Directories ==
    {[f \in names |-> "data"] : names \in SUBSET ({Candidate(a) : a \in 0..(MaxProbes - 1)}
                                                  \cup {<<"table">>})}

Environments ==
    [mkdir_ok : BOOLEAN, open_error_at : 0..MaxProbes, remove_ok : BOOLEAN]

\* a caller makes sure of the parent directory of its output path
EnsureParentDir ==
    /\ result = NoResult
    /\ \E has_parent \in BOOLEAN, files \in Directories, env \in Environments :
          result' = [kind |-> "ensure_parent_dir", has_parent |-> has_parent,
                     before |-> files, env |-> env,
                     out |-> ensure_parent_dir(has_parent, files, env)]
    /\ UNCHANGED <<tvars, cache, kept, history, xvars>>

NextProbe == EnsureParentDir \/ Consume

SpecProbe == Init /\ [][NextProbe]_vars

-----------------------------------------------------------------------------
(* Calls into the basis changer and the selection table                    *)

\* every BasisChanger that BasisChanger::new accepts for non-identity Paulis
BasisChangers ==
    {BasisChangerNew(x, y, z) : x, y, z \in {"X", "Y", "Z"}} \ {Panic}

\* the instructions handed to change_isa; CSSInitPlus stands for the kinds it leaves unimplemented
Instructions ==
    {Measure(all_bases[i]) : i \in 1..Len(all_bases)}
    \cup {JointMeasure(all_bases[i]) : i \in 1..Len(all_bases)}
    \cup {TGate(TGateDataNew(b, p, a)) : b \in {"X", "Y", "Z"}, p \in BOOLEAN, a \in BOOLEAN}
    \cup {Automorphism(AutNew(x, y)) : x \in {0, 1}, y \in {0, AutOrder - 1}}
    \cup {[op |-> "CSSInitPlus"]}

\* a caller changes the basis of one instruction, with either version of the crate
ChangeIsa ==
    /\ result = NoResult
    /\ \E self \in BasisChangers, instr \in Instructions :
          \/ result' = [kind |-> "change_isa", version |-> "crates/pbc_gross",
                        self |-> self, instr |-> instr, out |-> change_isa(self, instr)]
          \/ result' = [kind |-> "change_isa", version |-> "src/pbc_gross",
                        self |-> self, instr |-> instr, out |-> change_isa_src(self, instr)]
    /\ UNCHANGED <<tvars, cache, kept, history, xvars>>

\* a caller selects the basis change for a pair of Paulis
SelectBasisChange ==
    /\ result = NoResult
    /\ \E p_expected \in Range(PauliOrder), p_pivot \in Range(PauliOrder) :
          result' = [kind |-> "select_basis_change",
                     p_expected |-> p_expected, p_pivot |-> p_pivot,
                     out |-> select_basis_change(p_expected, p_pivot)]
    /\ UNCHANGED <<tvars, cache, kept, history, xvars>>

NextBasis == ChangeIsa \/ SelectBasisChange \/ Consume

SpecBasis == Init /\ [][NextBasis]_vars

-----------------------------------------------------------------------------
(* Properties of the synthesis table                                       *)

RECURSIVE Reconstruct(_, _, _)
\* reconstructed = base; for r in rotations: reconstructed.conjugate_with(r.zero_pivot())
Reconstruct(q, rotations, i) ==
    IF i > Len(rotations) THEN q
    ELSE Reconstruct(conjugate_with(q, zero_pivot(rotations[i].measures)), rotations, i + 1)

\* C1: for every non-identity p of a completed table, implementation(p) returns a base
\* and rotations such that conjugating base.measures() with the zero-pivot rotations in
\* list order yields p, and measures() = p.
C1_ImplementationReconstructs ==
    (result.kind = "implementation" /\ result.p # 0) =>
        /\ result.impl.ok
        /\ Reconstruct(result.impl.base.measures, result.impl.rotations, 1) = result.p
        /\ result.impl.measures = result.p

C1_Witness ==
    /\ result.kind = "implementation"
    /\ result.impl.ok
    /\ Len(result.impl.rotations) >= 2
    /\ result.impl.rotations[1] # result.impl.rotations[2]

RotationCounts(p) ==
    {Len(implementation(measurements, native_measurements, Mul(p, PivotPaulis[i])).rotations) :
        i \in 1..3}

\* C2: for a data string p (identity on the pivot, non-identity elsewhere) min_data(p) is
\* the implementation of p*P for a pivot Pauli P of X, Z, Y; its number of rotations is
\* the least of the three pivoted implementations; it measures p*P, so its pivot bits
\* are non-zero and its zero_pivot is p.
C2_MinDataCheapestPivot ==
    (result.kind = "min_data" /\ result.p # 0) =>
        /\ result.impl.ok
        /\ \E i \in 1..3 :
              /\ result.impl.measures = Mul(result.p, PivotPaulis[i])
              /\ result.impl = implementation(measurements, native_measurements,
                                              Mul(result.p, PivotPaulis[i]))
        /\ \A n \in RotationCounts(result.p) : Len(result.impl.rotations) <= n
        /\ Len(result.impl.rotations) \in RotationCounts(result.p)
        /\ pivot_bits(result.impl.measures) # 0
        /\ zero_pivot(result.impl.measures) = result.p

C2_Witness ==
    /\ result.kind = "min_data"
    /\ result.p # 0
    /\ result.impl.ok
    /\ pivot_bits(result.impl.measures) # X1
    /\ Cardinality(RotationCounts(result.p)) > 1

\* "no derivation", as a cost
Unreached == 0 - 1

\* one round of relaxation of a cost map d over every (entry, zero-pivot base rotation)
\* pair: conjugating q with r costs the cost of q plus twice the cost (1) of r
Relax(d, rots) ==
    LET steps == {<<conjugate_with(q, r), d[q] + 2 * 1>> :
                     q \in {q \in PauliStrings : d[q] # Unreached}, r \in rots}
    IN  StrictFn([p \in PauliStrings |->
            LET cands == {st[2] : st \in {st \in steps : st[1] = p}}
                all   == IF d[p] = Unreached THEN cands ELSE cands \cup {d[p]}
            IN  IF all = {} THEN Unreached
                ELSE CHOOSE m \in all : \A n \in all : m <= n])

RECURSIVE RelaxFix(_, _)
RelaxFix(d, rots) ==
    LET e == Relax(d, rots) IN IF e = d THEN d ELSE RelaxFix(e, rots)

\* the least cost of obtaining each PauliString from a native measurement (cost 1) by
\* successive conjugation with base rotations; Unreached where there is no way
MinCost(c) ==
    LET natives == Range(MeasuresOf(c, NativeAll))
        rots    == {zero_pivot(n) : n \in {n \in natives : has_pivot_support(n)}}
    IN  RelaxFix(StrictFn([p \in PauliStrings |-> IF p \in natives THEN 1 ELSE Unreached]),
                 rots)

\* C3: when build() ends with a full table, the stored cost of every PauliString that
\* can be obtained from a native measurement by conjugations is the least cost of such a
\* derivation (the identity, seeded at cost 0, is the only string with no derivation),
\* and no (entry, base rotation) pair would give a strictly cheaper entry.
C3_StoredCostsMinimal ==
    (pc = "built" /\ len = NrPaulis) =>
        LET d == MinCost(code)
        IN  /\ \A p \in PauliStrings :
                  IF d[p] = Unreached
                  THEN p = 0 /\ measurements[p] = Entry(0, NoPauli, 0)
                  ELSE measurements[index(p)].cost = d[p]
            /\ \A q \in PauliStrings : \A i \in 1..Len(base_rots) :
                  LET np == conjugate_with(q, zero_pivot(base_rots[i][1]))
                  IN  measurements[index(np)].cost
                         <= measurements[index(q)].cost + 2 * base_rots[i][2].cost

C3_Witness ==
    /\ pc = "built"
    /\ len = NrPaulis
    /\ \E p \in PauliStrings : measurements[index(p)].cost >= 5

\* C4: the entry seeded for a native PauliString is never replaced, and after build()
\* and complete() implementation() of a native PauliString has 0 rotations and a base
\* that measures that same string.
C4_NativesKeepSeededEntry ==
    /\ \A p \in NativeKeys(native_measurements) :
          measurements[index(p)] = Entry(p, NoPauli, 1)
    /\ (result.kind = "implementation" /\ result.p \in NativeKeys(native_measurements)) =>
          /\ result.impl.ok
          /\ Len(result.impl.rotations) = 0
          /\ result.impl.base.measures = result.p
          /\ measures(code, result.impl.base.native) = result.p

C4_Witness ==
    /\ pc = "complete"
    /\ result.kind = "implementation"
    /\ result.p \in NativeKeys(native_measurements)
    /\ has_pivot_support(result.p)
    /\ result.impl.ok

\* C7 as stated: the first listed rotation is the conjugated_with of p's own entry and
\* the last listed rotation is the one applied directly to the base measurement.
C7_OuterToInner ==
    (result.kind = "implementation" /\ result.p # 0 /\ result.impl.ok
        /\ Len(result.impl.rotations) >= 1) =>
        LET rots == result.impl.rotations
            base == result.impl.base.measures
            inner == measurements[index(conjugate_with(base,
                                    zero_pivot(rots[Len(rots)].measures)))]
        IN  /\ rots[1].measures = measurements[index(result.p)].conjugated_with
            /\ inner.measurement = base
            /\ inner.conjugated_with = rots[Len(rots)].measures

\* C7: the rotations are listed inner-to-outer: the first listed rotation is the one
\* applied directly to the base measurement and the last listed rotation is the
\* conjugated_with of p's own entry.
C7_InnerToOuter ==
    (result.kind = "implementation" /\ result.p # 0 /\ result.impl.ok
        /\ Len(result.impl.rotations) >= 1) =>
        LET rots == result.impl.rotations
            base == result.impl.base.measures
            inner == measurements[index(conjugate_with(base, zero_pivot(rots[1].measures)))]
        IN  /\ rots[Len(rots)].measures = measurements[index(result.p)].conjugated_with
            /\ inner.measurement = base
            /\ inner.conjugated_with = rots[1].measures

C7_Witness ==
    /\ result.kind = "implementation"
    /\ result.impl.ok
    /\ Len(result.impl.rotations) >= 2
    /\ result.impl.rotations[1].measures # measurements[index(result.p)].conjugated_with

\* what C8 says change_isa returns for an instruction of the four kinds it names
C8_Expected(self, instr) ==
    IF instr.op = "Measure"
    THEN Measure(TwoBasesNew(change_pauli(self, instr.bases.p1), instr.bases.p7))
    ELSE IF instr.op = "JointMeasure"
    THEN JointMeasure(TwoBasesNew(change_pauli(self, instr.bases.p1), instr.bases.p7))
    ELSE IF instr.op = "TGate"
    THEN TGate(TGateDataNew(change_pauli(self, instr.data.basis),
                            instr.data.primed, instr.data.adjoint))
    ELSE instr

\* C8: change_isa keeps the kind of the instruction and changes only the pivot
\* coordinate: a Measure stays a Measure and a JointMeasure a JointMeasure with p1
\* changed and p7 kept, a TGate keeps primed and adjoint with its basis changed, an
\* Automorphism is returned unchanged.
C8_ChangeIsaKeepsKind ==
    (result.kind = "change_isa"
     /\ result.instr.op \in {"Measure", "JointMeasure", "TGate", "Automorphism"})
    => result.out = C8_Expected(result.self, result.instr)

\* C9: for every pair of non-identity Paulis other than (Z, Y) the selected changer
\* is a permutation of {X, Y, Z} that maps p_expected to p_pivot and does not map Z
\* to Y, so that the JointMeasure(Z, I) of a GHZ pair never becomes a joint Y measurement.
C9_SelectionMapsExpectedToPivot ==
    (result.kind = "select_basis_change"
     /\ result.p_expected # "I" /\ result.p_pivot # "I"
     /\ <<result.p_expected, result.p_pivot>> # <<"Z", "Y">>)
    => /\ result.out # Panic
       /\ {result.out.x, result.out.y, result.out.z} = {"X", "Y", "Z"}
       /\ change_pauli(result.out, result.p_expected) = result.p_pivot
       /\ change_pauli(result.out, "Z") # "Y"
       /\ change_isa(result.out, JointMeasure(TwoBasesNew("Z", "I"))).bases.p1 # "Y"

\* a selection for a pair whose changer is not the default: (Y, Z)
C9_Witness ==
    /\ result.kind = "select_basis_change"
    /\ result.p_expected = "Y" /\ result.p_pivot = "Z"
    /\ result.out # Panic
    /\ result.out # BasisChangerDefault
    /\ change_pauli(result.out, "Y") = "Z"

\* the positions of the JointMeasure entries of an operation
JointEntries(op) == {j \in 1..Len(op) : op[j][2].op = "JointMeasure"}

\* C5: every operation emitted for a measurement or rotation on N blocks has its
\* block indices in [0, N); an operation that contains a JointMeasure contains
\* exactly two of them, on blocks whose indices differ by 1; and every emitted
\* operation satisfies validate_operation.
C5_EmittedOpsValid ==
    (result.kind = "compile" /\ result.out.ok) =>
        \A i \in 1..Len(result.out.ops) :
            LET op == result.out.ops[i]
                joints == JointEntries(op)
            IN  /\ \A j \in 1..Len(op) : op[j][1] \in 0..(result.n - 1)
                /\ joints # {} =>
                      /\ Cardinality(joints) = 2
                      /\ \E a \in joints, b \in joints :
                            a # b /\ abs(op[a][1] - op[b][1]) = 1
                /\ validate_operation(op) = TRUE

\* an output on three blocks with a GHZ pair starting at block 0, one starting at
\* block 1, and the automorphism of a native measurement
C5_Witness ==
    /\ result.kind = "compile" /\ result.out.ok /\ result.n = 3
    /\ \E i \in 1..Len(result.out.ops), j \in 1..Len(result.out.ops) :
          /\ JointEntries(result.out.ops[i]) # {} /\ result.out.ops[i][1][1] = 0
          /\ JointEntries(result.out.ops[j]) # {} /\ result.out.ops[j][1][1] = 1
    /\ \E i \in 1..Len(result.out.ops) : result.out.ops[i][1][2].op = "Automorphism"

\* C6: compiling the same operation again, on the same architecture and table and
\* with the same accuracy, gives the operations it gave the first time, whatever was
\* compiled in between and whether the cache held the angle or not.
C6_SameOperationSameOutput ==
    (/\ result.kind = "compile"
     /\ kept # NoResult
     /\ result.operation = kept.operation
     /\ result.n = kept.n
     /\ result.accuracy = kept.accuracy)
    => (result.out.ok /\ result.out.ops = kept.out.ops)

\* a rotation by an angle that gridsynth has to synthesize is compiled a second time,
\* after another angle was compiled, and the cache answers
C6_Witness ==
    /\ result.kind = "compile"
    /\ kept # NoResult
    /\ result.operation = kept.operation
    /\ result.n = kept.n
    /\ result.accuracy = kept.accuracy
    /\ result.operation.kind = "Rotation"
    /\ abs(result.operation.angle) # T_ANGLE
    /\ Cardinality(DOMAIN cache) > 1
    /\ result.out.ok
    /\ \E i \in 1..Len(result.out.ops) : result.out.ops[i][1][2].op = "TGate"

\* the recorded history of a block: None until the history reaches it
Recorded(hist, block) == IF block < Len(hist) THEN hist[block + 1] ELSE NoInstr

\* C10: an operation is filtered out exactly when every one of its entries is a
\* Measure identical to the recorded history of its block; a filtered-out operation
\* leaves the history of every block unchanged, and a retained operation sets the
\* history of each of its blocks to the instruction of that block.
C10_FilteredIffEveryEntryRepeats ==
    result.kind = "filter" =>
        LET op == result.ops_list
            repeats(j) == /\ op[j][2].op = "Measure"
                          /\ Recorded(result.before, op[j][1]) = op[j][2]
        IN  /\ (~result.keep) <=> (\A j \in 1..Len(op) : repeats(j))
            /\ (~result.keep) =>
                  \A b \in 0..(MaxBlocks - 1) :
                     Recorded(history, b) = Recorded(result.before, b)
            /\ result.keep =>
                  \A j \in 1..Len(op) : Recorded(history, op[j][1]) = op[j][2]

-----------------------------------------------------------------------------
(* The pipeline of main                                                    *)

\* the least position of b after position j that holds a[i], Len(b) + 1 if there is none
NextMatch(a, b, j, i) ==
    LET c == {k \in (j + 1)..Len(b) : b[k] = a[i]}
    IN  IF c = {} THEN Len(b) + 1
        ELSE CHOOSE k \in c : \A m \in c : k <= m

RECURSIVE SubseqFrom(_, _, _, _, _)
\* the position of b reached by matching a[lo..hi] in order, leftmost first, after
\* position j
SubseqFrom(a, b, j, lo, hi) ==
    IF lo > hi THEN j
    ELSE IF lo = hi THEN NextMatch(a, b, j, lo)
    ELSE LET mid == (lo + hi) \div 2
         IN  Only({SubseqFrom(a, b, left, mid + 1, hi) :
                      left \in {SubseqFrom(a, b, j, lo, mid)}})

\* a is an order-preserving sub-sequence of b
IsSubseq(a, b) == SubseqFrom(a, b, 0, 1, Len(a)) <= Len(b)

\* C11: the pipeline emits one chunk per operation read, in input order (while it
\* runs, as many chunks are written as operations were read, and the chunk just
\* produced belongs to the operation just read), and every chunk is an
\* order-preserving sub-sequence of the operations compiled for its operation
C11_OneChunkPerOperation ==
    /\ stream.written <= stream.read
    /\ stream.status = "running" => stream.written = stream.read
    /\ result.kind = "chunk" =>
          /\ result.index = stream.read
          /\ result.written => stream.written = result.index
          /\ IsSubseq(result.chunk, result.compiled)

\* the second operation of a run is compiled and written, and the filters dropped
\* some but not all of its operations
C11_Witness ==
    /\ result.kind = "chunk"
    /\ result.index = 2
    /\ result.written
    /\ Len(result.chunk) > 1
    /\ Len(result.chunk) < Len(result.compiled)

-----------------------------------------------------------------------------
(* The numerics                                                            *)

\* the largest value of vec over the blocks of op
MaxBefore(op, vec) ==
    CHOOSE v \in {vec[op[k][1] + 1] : k \in 1..Len(op)} :
       \A k \in 1..Len(op) : vec[op[k][1] + 1] <= v

\* C12: after run_numerics has processed an operation, every block b of the
\* operation has depths[b] = (maximum depth over the operation's blocks before it)
\* + 1 if its instruction is Measure or JointMeasure and + 0 otherwise, and
\* times[b] = (maximum time over the operation's blocks before it) + timing(instr);
\* the two blocks of a joint measurement end with the same depth and the same time
C12_DepthsAndTimesAfterOperation ==
    \A n \in 1..Len(numerics.trace) :
       LET t == numerics.trace[n]
           model == ModelOf(numerics.cli.model)
       IN  /\ \A k \in 1..Len(t.op) :
                 LET b == t.op[k][1] + 1
                     instr == t.op[k][2]
                 IN  /\ t.depths[b] = MaxBefore(t.op, t.depths_before)
                                      + (IF instr.op \in {"Measure", "JointMeasure"}
                                         THEN 1 ELSE 0)
                     /\ t.times[b] = MaxBefore(t.op, t.times_before)
                                     + timing(model, instr)
           /\ (Len(t.op) = 2 /\ t.op[1][2].op = "JointMeasure"
                             /\ t.op[2][2].op = "JointMeasure") =>
                 /\ t.depths[t.op[1][1] + 1] = t.depths[t.op[2][1] + 1]
                 /\ t.times[t.op[1][1] + 1] = t.times[t.op[2][1] + 1]

\* a joint measurement was processed on two blocks that differed in depth and in
\* time before it
C12_Witness ==
    \E n \in 1..Len(numerics.trace) :
       LET t == numerics.trace[n]
       IN  /\ Len(t.op) = 2
           /\ t.op[1][2].op = "JointMeasure"
           /\ t.depths_before[t.op[1][1] + 1] # t.depths_before[t.op[2][1] + 1]
           /\ t.times_before[t.op[1][1] + 1] # t.times_before[t.op[2][1] + 1]
           /\ t.depths[t.op[1][1] + 1] > 1

\* the rows that the writer accepted
WrittenRows == {k \in 1..Len(numerics.rows) : numerics.rows[k].written}

\* C13: the rows emitted are a prefix of the rows of run_numerics: row k has i = k,
\* the row with i = 1 passes take_while, a later row passes exactly when neither
\* total_error > max_error nor i > max_iter, and the first row that does not pass
\* ends the run, so that it and every later row are never emitted
C13_EmitsPrefixUntilThreshold ==
    LET rows == numerics.rows
        cli == numerics.cli
    IN  /\ \A k \in 1..Len(rows) :
              /\ rows[k].data.i = k
              /\ k = 1 => rows[k].passed
              /\ k > 1 => (rows[k].passed <=>
                              ~(rows[k].data.total_error > cli.max_error
                                \/ rows[k].data.i > cli.max_iter))
              /\ ~rows[k].passed => (k = Len(rows) /\ numerics.status = "stopped")
              /\ rows[k].written => rows[k].passed
              /\ (rows[k].passed /\ ~rows[k].written) =>
                    (k = Len(rows) /\ numerics.status = "write_error")
        /\ \A k \in WrittenRows : \A h \in 1..k : h \in WrittenRows
        /\ numerics.status = "stopped" => ~rows[Len(rows)].passed

\* two rows were emitted and the run stopped at the third row, which is within
\* max_iter and above max_error
C13_Witness ==
    /\ numerics.status = "stopped"
    /\ Len(numerics.rows) = 3
    /\ numerics.rows[1].written
    /\ numerics.rows[2].written
    /\ numerics.rows[2].data.total_error > 0
    /\ numerics.rows[3].data.i <= numerics.cli.max_iter
    /\ numerics.rows[3].data.total_error > numerics.cli.max_error

-----------------------------------------------------------------------------
(* The architecture                                                        *)

\* the distance of the first two blocks of an operation
BlockDistance(op) == abs(op[1][1] - op[2][1])

\* C14: validate_operation(op) returns true exactly when op has length 1, or has
\* length 2 with block indices that differ by 1, and returns false for every other
\* operation (empty, two equal or non-adjacent blocks, three or more entries)
C14_ValidExactlyOneOrAdjacentPair ==
    result.kind = "validate_operation" =>
       /\ result.out.ok
       /\ result.out.value =
             (Len(result.op) = 1 \/ (Len(result.op) = 2 /\ BlockDistance(result.op) = 1))

-----------------------------------------------------------------------------
(* The cache of synthesize_angle                                           *)

\* C15: a thread reads or writes CACHE only while it alone holds the mutex, the
\* mutex is not held by a thread whose synthesizer subprocess runs, and a call that
\* found its key in the cache has the stored result and has not invoked the
\* synthesizer
C15_CacheUnderLockNotAcrossSubprocess ==
    /\ Cardinality(sync.holders) <= 1
    /\ \A t \in Threads :
          LET th == sync.threads[t]
          IN  /\ th.pc \in {"locked_get", "got", "locked_insert", "inserted"} =>
                    sync.holders = {t}
              /\ th.pc \in {"miss", "gridsynth", "insert"} => t \notin sync.holders
              /\ th.hit => ~th.invoked
              /\ (th.hit /\ th.pc = "got") => th.res = cache[<<th.theta, th.accuracy>>]
              /\ th.pc \in {"gridsynth", "insert", "locked_insert", "inserted"} =>
                    (th.invoked /\ ~th.hit)

\* one thread has found its key in the cache and still holds the guard while the
\* synthesizer subprocess of another thread runs
C15_Witness ==
    \E t, u \in Threads :
       /\ sync.threads[t].pc = "got"
       /\ sync.threads[t].hit
       /\ sync.threads[u].pc = "gridsynth"

-----------------------------------------------------------------------------
(* compile_rots                                                            *)

\* how often gate g occurs in gates
CountGate(gates, g) == Cardinality({i \in 1..Len(gates) : gates[i] = g})

\* C16: for a gate string T?(HT|SHT)*[HXSW]*, compile_rots emits one rotation per
\* T; the bases alternate between Z and X, starting with Z if the string starts
\* with T and with X otherwise; an SHT syllable flips the dagger of the rotation
\* emitted just before it, or, when there is none, sets s_start, which appends
\* exactly one S at the end of the Clifford list
C16_OneRotationPerTAlternating ==
    result.kind = "compile_rots" =>
       LET form == result.form
           rots == result.out.rotations
           cliffords == result.out.cliffords
           off == IF form.first THEN 1 ELSE 0
           s_start == ~form.first /\ form.syllables # <<>> /\ form.syllables[1] = SHT
       IN  /\ Len(rots) = CountGate(form.gates, "T")
           /\ \A k \in 1..Len(rots) :
                 /\ rots[k].basis = IF (k % 2 = 1) = form.first THEN "Z" ELSE "X"
                 /\ rots[k].dagger = (/\ k - off + 1 <= Len(form.syllables)
                                      /\ form.syllables[k - off + 1] = SHT)
           /\ CountGate(cliffords, "S")
                 = CountGate(form.tail, "S") + (IF s_start THEN 1 ELSE 0)
           /\ s_start => (cliffords # <<>> /\ cliffords[Len(cliffords)] = "S")

\* a string without a leading T whose first syllable is SHT, with a later SHT that
\* flips a rotation and a Clifford ending that holds an S of its own
C16_Witness ==
    /\ result.kind = "compile_rots"
    /\ ~result.form.first
    /\ Len(result.form.syllables) = 3
    /\ result.form.syllables[1] = SHT
    /\ result.form.syllables[2] = HT
    /\ result.form.syllables[3] = SHT
    /\ result.form.tail = <<"H", "S">>
    /\ result.out.rotations[2].dagger
    /\ Len(result.out.cliffords) = 2

-----------------------------------------------------------------------------
(* The shape of a compiled rotation                                        *)

\* the positions of the operations that hold an instruction of the kind
PositionsOf(ops, kind) ==
    {i \in 1..Len(ops) : \E e \in 1..Len(ops[i]) : ops[i][e][2].op = kind}

\* block b (counted from 0) of the padded basis is not all identities
NonTrivialBlock(basis, b) ==
    \E q \in (b * BlockSize + 1)..((b + 1) * BlockSize) :
       q <= Len(basis) /\ basis[q] # "I"

\* the first non-trivial block of the basis, or n - 1 when there is none
FirstNonTrivial(basis, n) ==
    LET nt == {b \in 0..(n - 1) : NonTrivialBlock(basis, b)}
    IN  IF nt = {} THEN n - 1 ELSE CHOOSE b \in nt : \A c \in nt : b <= c

\* C17: in a compiled rotation on n blocks every TGate is a single-block operation
\* on block n-1 with primed = false; the TGates come after every GHZ JointMeasure
\* and before the uncompute Measures (the n single-block Measures on blocks
\* 0..n-1 that follow them); the JointMeasures are one per adjacent pair of
\* [firstNonTrivial, n-1], so a basis that is trivial on all blocks has none
C17_TGatesBetweenGhzAndUncompute ==
    (result.kind = "compile" /\ result.operation.kind = "Rotation" /\ result.out.ok) =>
       LET ops == result.out.ops
           n == result.n
           tpos == PositionsOf(ops, "TGate")
           jpos == PositionsOf(ops, "JointMeasure")
           first == FirstNonTrivial(result.operation.basis, n)
           both == tpos \cup jpos
       IN  /\ \A i \in tpos :
                 /\ Len(ops[i]) = 1
                 /\ ops[i][1][1] = n - 1
                 /\ ~ops[i][1][2].data.primed
           /\ \A i \in tpos, j \in jpos : j < i
           /\ \A i \in tpos : i + 1 \in tpos \/ (\A h \in tpos : h <= i)
           /\ LET last == CHOOSE i \in both : \A h \in both : h <= i
              IN  \A b \in {c \in 0..(n - 1) : both # {}} :
                     /\ last + 1 + b <= Len(ops)
                     /\ Len(ops[last + 1 + b]) = 1
                     /\ ops[last + 1 + b][1][1] = b
                     /\ ops[last + 1 + b][1][2].op = "Measure"
           /\ {<<ops[j][1][1], ops[j][2][1]>> : j \in jpos}
                 = {<<r, r + 1>> : r \in first..(n - 2)}
           /\ Cardinality(jpos) = n - 1 - first
           /\ (\A b \in 0..(n - 1) : ~NonTrivialBlock(result.operation.basis, b)) =>
                 jpos = {}

\* a rotation on three blocks whose first block is trivial and whose second is
\* not, with a GHZ measurement and more than one TGate
C17_Witness ==
    /\ result.kind = "compile"
    /\ result.operation.kind = "Rotation"
    /\ result.out.ok
    /\ result.n = 3
    /\ FirstNonTrivial(result.operation.basis, 3) = 1
    /\ Cardinality(PositionsOf(result.out.ops, "JointMeasure")) = 1
    /\ Cardinality(PositionsOf(result.out.ops, "TGate")) > 1

-----------------------------------------------------------------------------
(* The shape of a compiled measurement                                     *)

\* op is one instruction of the kind on block b
SingleOn(op, b, kind) == Len(op) = 1 /\ op[1][1] = b /\ op[1][2].op = kind

\* the five operations of one rotation, starting at position p, all on block b
RotationAt(ops, p, b) ==
    /\ SingleOn(ops[p], b, "Measure")
    /\ SingleOn(ops[p + 1], b, "Automorphism")
    /\ SingleOn(ops[p + 2], b, "Measure")
    /\ SingleOn(ops[p + 3], b, "Automorphism")
    /\ SingleOn(ops[p + 4], b, "Measure")

\* the length of the pre-rotation segment that the other segments leave
PreLength(ops, n, nt, first, last) ==
    (Len(ops) - n - 3 * Cardinality(nt) - (last - first) - n) \div 2

\* C18: a compiled measurement on n blocks is the concatenation of the
\* pre-rotations (five single-block operations per rotation, blocks ascending), one
\* preparation Measure per block 0..n-1, the three instructions of the base native
\* measurement of each non-trivial block, the GHZ joint measurements of the
\* tightest interval that covers the non-trivial blocks, one uncompute Measure per
\* block, and the post-rotations, which equal the pre-rotations operation for
\* operation
C18_MeasurementSegments ==
    (result.kind = "compile" /\ result.operation.kind = "Measurement" /\ result.out.ok) =>
       LET ops == result.out.ops
           n == result.n
           nt == {b \in 0..(n - 1) : NonTrivialBlock(result.operation.basis, b)}
           first == CHOOSE b \in nt : \A c \in nt : b <= c
           last == CHOOSE b \in nt : \A c \in nt : b >= c
           ntseq == SetToSeqAsc(nt)
           R == PreLength(ops, n, nt, first, last)
           prep == R
           base == prep + n
           ghz == base + 3 * Cardinality(nt)
           unc == ghz + (last - first)
           post == unc + n
       IN  /\ nt # {}
           /\ R >= 0 /\ R % 5 = 0 /\ Len(ops) = post + R
           /\ \A g \in 0..((R \div 5) - 1) :
                 \E b \in nt : RotationAt(ops, 5 * g + 1, b)
           /\ \A p \in 1..(R - 1) : ops[p][1][1] <= ops[p + 1][1][1]
           /\ \A b \in 0..(n - 1) : SingleOn(ops[prep + 1 + b], b, "Measure")
           /\ \A i \in 1..Len(ntseq) :
                 /\ SingleOn(ops[base + 3 * (i - 1) + 1], ntseq[i], "Automorphism")
                 /\ SingleOn(ops[base + 3 * (i - 1) + 2], ntseq[i], "Measure")
                 /\ SingleOn(ops[base + 3 * (i - 1) + 3], ntseq[i], "Automorphism")
           /\ PositionsOf(ops, "JointMeasure") = (ghz + 1)..unc
           /\ {<<ops[j][1][1], ops[j][2][1]>> : j \in (ghz + 1)..unc}
                 = {<<r, r + 1>> : r \in first..(last - 1)}
           /\ \A j \in (ghz + 1)..unc : Len(ops[j]) = 2
           /\ \A b \in 0..(n - 1) : SingleOn(ops[unc + 1 + b], b, "Measure")
           /\ SubSeq(ops, post + 1, post + R) = SubSeq(ops, 1, R)

\* a measurement on three blocks whose middle block is trivial, so that the GHZ
\* spans it, and with pre-rotations
C18_Witness ==
    /\ result.kind = "compile"
    /\ result.operation.kind = "Measurement"
    /\ result.out.ok
    /\ result.n = 3
    /\ NonTrivialBlock(result.operation.basis, 0)
    /\ ~NonTrivialBlock(result.operation.basis, 1)
    /\ NonTrivialBlock(result.operation.basis, 2)
    /\ Cardinality(PositionsOf(result.out.ops, "JointMeasure")) = 2
    /\ Len(result.out.ops) > 3 + 6 + 2 + 3

-----------------------------------------------------------------------------
(* ghz_meas                                                                *)

\* C20: ghz_meas(s, L) with L >= 1 returns L-1 operations, one for each adjacent
\* pair (r, r+1) with s <= r < s+L-1; the pairs with r-s even come before the pairs
\* with r-s odd, each group in ascending r; every operation carries
\* JointMeasure(Z, I) on both blocks; L = 1 yields no operation
C20_GhzPairsEvenThenOdd ==
    (result.kind = "ghz_meas" /\ result.blocks >= 1) =>
       LET s == result.start
           L == result.blocks
           ops == result.out.ops
           r(i) == ops[i][1][1]
       IN  /\ result.out.ok
           /\ Len(ops) = L - 1
           /\ \A i \in 1..Len(ops) :
                 /\ Len(ops[i]) = 2
                 /\ ops[i][2][1] = r(i) + 1
                 /\ ops[i][1][2] = JointMeasure(TwoBasesNew("Z", "I"))
                 /\ ops[i][2][2] = JointMeasure(TwoBasesNew("Z", "I"))
           /\ {r(i) : i \in 1..Len(ops)} = s..(s + L - 2)
           /\ \A i, j \in 1..Len(ops) :
                 i < j =>
                    /\ r(i) # r(j)
                    /\ ((r(i) - s) % 2 = (r(j) - s) % 2) => r(i) < r(j)
                    /\ ((r(i) - s) % 2 # (r(j) - s) % 2) => (r(i) - s) % 2 = 0
           /\ L = 1 => ops = <<>>

\* a GHZ over six blocks from an odd start: three even-offset pairs, then two
\* odd-offset pairs
C20_Witness ==
    /\ result.kind = "ghz_meas"
    /\ result.start = 3
    /\ result.blocks = 6
    /\ Len(result.out.ops) = 5
    /\ result.out.ops[3][1][1] = 7
    /\ result.out.ops[4][1][1] = 4

-----------------------------------------------------------------------------
(* ensure_parent_dir                                                       *)

\* every file that was there before the call is there after it, unchanged
NothingClobbered(before, after) ==
    \A f \in DOMAIN before : f \in DOMAIN after /\ after[f] = before[f]

\* all the probe names of the call are taken
AllCollide(before) ==
    \A a \in 0..(MaxProbes - 1) : Candidate(a) \in DOMAIN before

\* C19 (as stated): at most 8 probe names are tried, no file that existed before
\* the call is changed or removed, no probe file is left behind when the call
\* returns Ok, and the call returns Err when all 8 names collide or any other I/O
\* error occurs
C19_NoProbeLeftAndErrOnAnyError ==
    result.kind = "ensure_parent_dir" =>
       LET out == result.out
       IN  /\ out.attempts <= MaxProbes
           /\ NothingClobbered(result.before, out.files)
           /\ out.ret = "Ok" => DOMAIN out.files = DOMAIN result.before
           /\ (result.has_parent /\ (AllCollide(result.before) \/ out.errors # {}))
                 => out.ret = "Err"

\* C19 (amended): at most 8 probe names are tried, each only after the names
\* before it were taken; no file that existed before the call is changed or
\* removed; when the call returns Ok the only file it can leave behind is the
\* probe it created, and only if remove_file failed; the call returns Err exactly
\* when create_dir_all fails, all 8 names collide, or an open fails with another
\* error, and then the directory is as before
C19_NoClobberBestEffortCleanup ==
    result.kind = "ensure_parent_dir" =>
       LET out == result.out
       IN  /\ out.attempts <= MaxProbes
           /\ \A a \in 0..(out.attempts - 2) : Candidate(a) \in DOMAIN result.before
           /\ NothingClobbered(result.before, out.files)
           /\ out.ret = "Ok" =>
                 /\ DOMAIN out.files \ DOMAIN result.before
                       \subseteq {out.probe[i] : i \in 1..Len(out.probe)}
                 /\ "remove_file" \notin out.errors =>
                       DOMAIN out.files = DOMAIN result.before
           /\ out.ret = "Err" => out.files = result.before
           /\ out.ret = "Err" <=>
                 /\ result.has_parent
                 /\ \/ "create_dir_all" \in out.errors
                    \/ "open" \in out.errors
                    \/ AllCollide(result.before)

\* the first three probe names are taken, the fourth is created next to the
\* files of other processes, and the call returns Ok after removing it
C19_Witness ==
    /\ result.kind = "ensure_parent_dir"
    /\ result.out.ret = "Ok"
    /\ result.out.attempts = 4
    /\ result.out.errors = {}
    /\ <<"table">> \in DOMAIN result.before
    /\ Candidate(5) \in DOMAIN result.out.files
    /\ result.out.probe = <<Candidate(3)>>

-----------------------------------------------------------------------------
(* The selection table                                                     *)

\* the permutation of {X, Y, Z} that exchanges a and b and fixes the third
SwapOf(a, b) ==
    [x |-> IF a = "X" THEN b ELSE IF b = "X" THEN a ELSE "X",
     y |-> IF a = "Y" THEN b ELSE IF b = "Y" THEN a ELSE "Y",
     z |-> IF a = "Z" THEN b ELSE IF b = "Z" THEN a ELSE "Z"]

\* the permutation X -> Y -> Z -> X
CycleXYZ == [x |-> "Y", y |-> "Z", z |-> "X"]

\* C21 as stated: select_basis_change returns the swap of Y and Z for (Y, Z), the
\* swap of X and Y for (X, Y), the swap of X and Z for (X, Z), and the identity
\* permutation whenever p_expected = p_pivot
C21_SelectionTableAsListed ==
    result.kind = "select_basis_change" =>
       /\ <<result.p_expected, result.p_pivot>> = <<"Y", "Z">>
             => result.out = SwapOf("Y", "Z")
       /\ <<result.p_expected, result.p_pivot>> = <<"X", "Y">>
             => result.out = SwapOf("X", "Y")
       /\ <<result.p_expected, result.p_pivot>> = <<"X", "Z">>
             => result.out = SwapOf("X", "Z")
       /\ result.p_expected = result.p_pivot => result.out = BasisChangerDefault

\* C21, amended: select_basis_change returns the cycle X -> Y -> Z -> X for (Y, Z)
\* and for (X, Y), the swap of X and Z with Y fixed for (X, Z), the swap of X and Y
\* for (Y, X), the swap of X and Z for (Z, X), the identity permutation when
\* p_expected = p_pivot is X, Y or Z, and does not return for (I, I)
C21_SelectionTableOfTheCode ==
    result.kind = "select_basis_change" =>
       /\ <<result.p_expected, result.p_pivot>> = <<"Y", "Z">> => result.out = CycleXYZ
       /\ <<result.p_expected, result.p_pivot>> = <<"X", "Y">> => result.out = CycleXYZ
       /\ <<result.p_expected, result.p_pivot>> = <<"X", "Z">>
             => result.out = SwapOf("X", "Z")
       /\ <<result.p_expected, result.p_pivot>> = <<"Y", "X">>
             => result.out = SwapOf("X", "Y")
       /\ <<result.p_expected, result.p_pivot>> = <<"Z", "X">>
             => result.out = SwapOf("X", "Z")
       /\ (result.p_expected = result.p_pivot /\ result.p_expected # "I")
             => result.out = BasisChangerDefault
       /\ (result.p_expected = "I" /\ result.p_pivot = "I") => result.out = Panic

\* the selection for (X, Y) returned a changer that moves Z
C21_Witness ==
    /\ result.kind = "select_basis_change"
    /\ result.p_expected = "X" /\ result.p_pivot = "Y"
    /\ result.out # Panic
    /\ change_pauli(result.out, "X") = "Y"
    /\ change_pauli(result.out, "Z") = "X"

-----------------------------------------------------------------------------
(* The calls of select_basis_change made by the compiler                   *)

\* what the closure over basis.chunks_exact() does with one chunk: nothing for a
\* trivial chunk, a panic inside min_data, or a call of select_basis_change
BlockCall(tbl, lookup, paulis, p_expected) ==
    IF \A i \in 1..Len(paulis) : paulis[i] = "I" THEN [kind |-> "trivial"]
    ELSE LET meas_impl == min_data(tbl, lookup, FromPaulis(<<"I">> \o paulis))
         IN  IF ~meas_impl.ok THEN [kind |-> "panic"]
             ELSE [kind |-> "select", p_expected |-> p_expected,
                   p_pivot |-> get_pauli(meas_impl.measures, 0)]

\* a chunk at which the closure panics
BlockStops(call) ==
    \/ call.kind = "panic"
    \/ call.kind = "select" /\ select_basis_change(call.p_expected, call.p_pivot) = Panic

\* block_instrs.unzip(): the closure runs on the chunks in order until one panics
BlockCalls(n, tbl, lookup, basis, last_expected) ==
    LET ext == extend_basis(basis)
        all == [b \in 1..(Len(ext) \div BlockSize) |->
                   BlockCall(tbl, lookup,
                             SubSeq(ext, (b - 1) * BlockSize + 1, b * BlockSize),
                             ExpectedPauli(b - 1, n, last_expected))] \o <<>>
        made == {b \in 1..Len(all) : \A c \in 1..(b - 1) : ~BlockStops(all[c])}
    IN  [b \in 1..Cardinality(made) |-> all[b]] \o <<>>

\* the calls of select_basis_change made while operation is compiled: none by
\* compile_rotation when assert!(n > 0) fails
SelectCalls(operation, n, tbl, lookup) ==
    IF operation.kind = "Measurement" THEN BlockCalls(n, tbl, lookup, operation.basis, "Y")
    ELSE IF n <= 0 THEN <<>>
    ELSE BlockCalls(n, tbl, lookup, operation.basis, "X")

\* one call of PbcOperation::compile, with the arguments of its calls of
\* select_basis_change
CompileSelecting ==
    /\ pc = "complete"
    /\ result = NoResult
    /\ \E n \in 0..MaxBlocks, accuracy \in Accuracies, gridsynth \in GridsynthOutputs :
          \E operation \in PbcOperations(n) :
             \E out \in {compile(operation, n, measurements, native_measurements,
                                 accuracy, cache, gridsynth)},
                calls \in {SelectCalls(operation, n, measurements, native_measurements)} :
                /\ result' = [kind |-> "compile", operation |-> operation, n |-> n,
                              accuracy |-> accuracy, out |-> out, calls |-> calls]
                /\ cache' = IF out.ok THEN out.cache ELSE cache
    /\ UNCHANGED <<tvars, kept, history, xvars>>

NextSelecting ==
    \/ BuildStart \/ BuildPass \/ BuildConjugate \/ BuildPassEnd \/ Complete
    \/ CompileSelecting \/ Consume

SpecSelecting == Init /\ [][NextSelecting]_vars

\* C22: every call of select_basis_change made by compile_measurement and
\* compile_rotation has p_expected in {X, Y} and p_pivot in {X, Y, Z}: the pair
\* (Z, Y) and an identity argument are never passed, and the call returns a changer
C22_SelectionNeverUnreachable ==
    (result.kind = "compile" /\ "calls" \in DOMAIN result) =>
       \A b \in 1..Len(result.calls) :
          result.calls[b].kind = "select" =>
             /\ result.calls[b].p_expected \in {"X", "Y"}
             /\ result.calls[b].p_pivot \in {"X", "Y", "Z"}
             /\ select_basis_change(result.calls[b].p_expected,
                                    result.calls[b].p_pivot) # Panic

\* a rotation on two non-trivial blocks called select_basis_change with Y for the
\* first block and with X for the magic block
C22_Witness ==
    /\ result.kind = "compile"
    /\ "calls" \in DOMAIN result
    /\ result.operation.kind = "Rotation"
    /\ result.n = 2
    /\ Len(result.calls) = 2
    /\ result.calls[1].kind = "select" /\ result.calls[1].p_expected = "Y"
    /\ result.calls[2].kind = "select" /\ result.calls[2].p_expected = "X"
    /\ result.out.ok

-----------------------------------------------------------------------------
(* Termination of build()                                                  *)

\* the PauliStrings pushed on next_paulis by a step
Pushed == {next_paulis'[i] : i \in (Len(next_paulis) + 1)..Len(next_paulis')}

\* a step of the inner loops only appends to the frontier, and what it appends had
\* no entry before or has a strictly cheaper entry afterwards
PushedNewOrLowered ==
    (pc = "for" /\ pc' = "for") =>
       /\ Len(next_paulis') >= Len(next_paulis)
       /\ SubSeq(next_paulis', 1, Len(next_paulis)) = next_paulis
       /\ \A q \in Pushed :
             /\ measurements'[index(q)] # NoEntry
             /\ \/ measurements[index(q)] = NoEntry
                \/ measurements'[index(q)].cost < measurements[index(q)].cost

\* the while test leaves the loop when the table is full, and the test after a
\* pass leaves it when the pass pushed nothing
ExitsWhenFullOrEmpty ==
    /\ (pc = "while" /\ len >= NrPaulis) => pc' = "built"
    /\ (pc = "for" /\ prev_paulis = <<>> /\ next_paulis = <<>>) => pc' = "built"

-----------------------------------------------------------------------------
(* The rotations of the table                                              *)

\* a rotation returned by a lookup is a native measurement with pivot support
NativeWithPivot(rot) ==
    /\ rot.native # NoNative
    /\ native_measurements[rot.measures] = rot.native
    /\ has_pivot_support(rot.measures)
    /\ get_pauli(rot.measures, 0) # "I"
    /\ rotation_instructions(rot).ok

\* C24: every base rotation of the search is the PauliString of a native
\* measurement with a non-identity pivot, every rotation recorded in the table is
\* one of them, and so every rotation listed by implementation() or min_data() is
\* a native measurement with pivot support on which rotation_instructions succeeds
C24_RotationsHavePivotSupport ==
    /\ \A i \in 1..Len(base_rots) :
          /\ native_measurements[base_rots[i][1]] # NoNative
          /\ has_pivot_support(base_rots[i][1])
          /\ implements(base_rots[i][2]) = base_rots[i][1]
    /\ \A p \in PauliStrings :
          (measurements[p] # NoEntry /\ measurements[p].conjugated_with # NoPauli) =>
             /\ native_measurements[measurements[p].conjugated_with] # NoNative
             /\ has_pivot_support(measurements[p].conjugated_with)
    /\ (result.kind \in {"implementation", "min_data"} /\ result.impl.ok) =>
          \A j \in 1..Len(result.impl.rotations) :
             NativeWithPivot(result.impl.rotations[j])

\* min_data returned an implementation with rotations, each of them expanded by
\* rotation_instructions into five instructions
C24_Witness ==
    /\ result.kind = "min_data"
    /\ result.impl.ok
    /\ Len(result.impl.rotations) >= 1
    /\ \A j \in 1..Len(result.impl.rotations) :
          /\ rotation_instructions(result.impl.rotations[j]).ok
          /\ Len(rotation_instructions(result.impl.rotations[j]).ops) = 5
    /\ Len(base_rots) < Cardinality(NativeKeys(native_measurements))

-----------------------------------------------------------------------------
(* Bases shorter than the architecture                                     *)

\* the number of blocks a basis spans once extend_basis has padded it
BlocksOf(basis) == Len(extend_basis(basis)) \div BlockSize

\* a compilation that cannot fail in the angle synthesis: a measurement, or a
\* rotation by a T angle with an accuracy that synthesize_angle accepts
NoSynthesis(operation, accuracy) ==
    \/ operation.kind = "Measurement"
    \/ operation.angle \in {T_ANGLE, 0 - T_ANGLE} /\ accuracy <= MaxAccuracy

\* C25: on an architecture of n >= 1 blocks, an operation whose padded basis spans
\* at most n blocks and is not the identity everywhere compiles: compile returns a
\* list of operations instead of panicking on an out-of-range block
C25_ShorterBasisCompiles ==
    (/\ result.kind = "compile"
     /\ result.n >= 1
     /\ BlocksOf(result.operation.basis) <= result.n
     /\ \E i \in 1..Len(result.operation.basis) : result.operation.basis[i] # "I"
     /\ NoSynthesis(result.operation, result.accuracy))
    => result.out.ok


\* ---------------------------------------------------------------------------
\* Measurements without support
\* ---------------------------------------------------------------------------

\* the basis is the identity on every qubit of each of the n blocks
AllIdentity(basis, n) ==
    /\ Len(basis) = n * BlockSize
    /\ \A i \in 1..Len(basis) : basis[i] = "I"

\* the operations hold no joint measurement of a GHZ preparation
NoGhz(ops) == \A i \in 1..Len(ops) : JointEntries(ops[i]) = {}

\* C26: compile_measurement on a basis that is the identity on every qubit of
\* every block does not panic and returns operations without any GHZ joint
\* measurement
C26_IdentityMeasurementCompiles ==
    (/\ result.kind = "compile"
     /\ result.n >= 1
     /\ result.operation.kind = "Measurement"
     /\ AllIdentity(result.operation.basis, result.n))
    => (result.out.ok /\ NoGhz(result.out.ops))


\* ---------------------------------------------------------------------------
\* The table and the iteration order of base_rots
\* ---------------------------------------------------------------------------

RECURSIVE PassRange(_, _, _, _, _)
\* build(): the for loop over prev_paulis[lo], ..., prev_paulis[hi] of one pass
PassRange(st, prevs, rots, lo, hi) ==
    IF lo > hi THEN st
    ELSE IF lo = hi THEN InnerLoop(st.t, st.next, prevs[lo], rots)
    ELSE LET mid == (lo + hi) \div 2
         IN  Only({PassRange(left, prevs, rots, mid + 1, hi) :
                      left \in {PassRange(st, prevs, rots, lo, mid)}})

RECURSIVE BuildLoop(_, _, _)
\* build(): the while loop, from the table t and the frontier nxt
BuildLoop(t, nxt, rots) ==
    IF t.len < NrPaulis
    THEN Only({IF st.next = <<>> THEN st.t ELSE BuildLoop(st.t, st.next, rots) :
                  st \in {PassRange([t |-> t, next |-> <<>>], nxt, rots, 1, Len(nxt))}})
    ELSE t

\* the table that build() leaves for the code c when base_rots iterates in the
\* given order
BuiltWith(c, order) ==
    Only({BuildLoop([measurements |-> b.measurements, len |-> b.len],
                    MeasuresOf(c, NativeAll),
                    Strict([i \in 1..Len(order) |->
                               <<order[i], b.measurements[index(order[i])]>>])).measurements :
             b \in {new(NativeAll, c)}})

\* C27: the table of a completed build does not depend on the order in which
\* the hash map base_rots is iterated: every order gives the entries that the
\* run has stored
C27_TableIndependentOfOrder ==
    pc = "complete" =>
        \A order \in IterationOrders(BaseRotKeys(Builder)) :
            measurements = BuiltWith(code, order)


\* ---------------------------------------------------------------------------
\* Concurrent calls of synthesize_angle
\* ---------------------------------------------------------------------------

\* thread t is about to take the cache mutex, for its lookup or for its insert
AtCacheLock(t) == sync.threads[t].pc \in {"lookup", "insert"}

\* C28: with several threads inside synthesize_angle, no call panics when it
\* takes the cache mutex for its lookup or for its insert, whoever holds the
\* mutex at that moment
C28_NoPanicOnHeldMutex ==
    [][\A t \in Threads : AtCacheLock(t) => sync'.threads[t].pc # "panicked"]_vars


\* ---------------------------------------------------------------------------
\* The chains of the completed table
\* ---------------------------------------------------------------------------

\* the entry e points to an entry of strictly lower cost that is not the
\* identity's, or, without conjugated_with, measures a native PauliString
StepsDown(e) ==
    /\ e # NoEntry
    /\ e.measurement # 0
    /\ IF e.conjugated_with # NoPauli
       THEN /\ measurements[index(e.measurement)] # NoEntry
            /\ measurements[index(e.measurement)].cost < e.cost
       ELSE native_measurements[e.measurement] # NoNative

\* C29: in a completed table, for every PauliString p other than the identity,
\* the stored cost strictly decreases from each entry to the entry of its
\* recorded measurement, no entry of a chain is the identity's, and the walk of
\* implementation(p) ends, after at most cost-many steps, at a native entry
C29_ChainsDescendToNative ==
    pc = "complete" =>
        /\ \A p \in PauliStrings \ {0} : StepsDown(measurements[index(p)])
        /\ \A p \in PauliStrings \ {0} :
              LET walk == ChainWalk(measurements, measurements[index(p)], <<>>)
              IN  /\ walk.entry.conjugated_with = NoPauli
                  /\ walk.entry.measurement # 0
                  /\ native_measurements[walk.entry.measurement] # NoNative
                  /\ 2 * Len(walk.rots) < measurements[index(p)].cost

\* a completed table in which the walk of some PauliString takes two steps
C29_Witness ==
    /\ pc = "complete"
    /\ \E p \in PauliStrings \ {0} :
          Len(ChainWalk(measurements, measurements[index(p)], <<>>).rots) >= 2


\* ---------------------------------------------------------------------------
\* len() and is_empty() of the builder
\* ---------------------------------------------------------------------------

\* MeasurementTableBuilder::len
BuilderLen(t) == t.len

\* MeasurementTableBuilder::is_empty
is_empty(t) == t.len > 0

\* the number of filled slots of the table
FilledSlots(t) == Cardinality({p \in PauliStrings : t.measurements[index(p)] # NoEntry})

\* a caller asks the builder, before or after build(), for len() and is_empty()
Inspect ==
    /\ pc \in {"new", "built"}
    /\ result = NoResult
    /\ result' = [kind |-> "inspect", len |-> BuilderLen(Builder),
                  is_empty |-> is_empty(Builder), filled |-> FilledSlots(Builder)]
    /\ UNCHANGED <<tvars, cache, kept, history, xvars>>

NextInspect ==
    \/ BuildStart \/ BuildPass \/ BuildConjugate \/ BuildPassEnd \/ Complete
    \/ Inspect \/ Consume

SpecInspect == Init /\ [][NextInspect]_vars

\* C30: is_empty() is true exactly when the builder holds no entries, that is
\* when len() = 0, and len() is the number of filled slots of the table
C30_IsEmptyIffNoEntries ==
    result.kind = "inspect" =>
        /\ result.len = result.filled
        /\ result.is_empty <=> (result.len = 0)

====
